---- MODULE Spec2Model ----
(***************************************************************************)
(* Live-data reconciliation layer of the race-day companion: the request   *)
(* cache (lib/simulation.ts), the tension reducer and overtake detector    *)
(* (components/welcome-screen.tsx), the session-best tracker               *)
(* (usePurpleSectorToasts), the corner hysteresis (LivePositionCard), the  *)
(* pit-data load (PitStrategyCard, fetchPitData), the current-lap and      *)
(* stint derivations, the circuit layout fetch, the rolling clock now()    *)
(* and the live poll of HomeDashboard with its driver change and tension   *)
(* analysis.  Each subsystem has its own specification over the variables  *)
(* it owns; the other variables stay at their initial value.               *)
(***************************************************************************)
EXTENDS Integers, Sequences, FiniteSets, TLC

VARIABLES
    clock,      \* Date.now(), in milliseconds
    urlCache,   \* _urlCache : url -> [promise, ts]; DOMAIN = keys of the Map
    reqs,       \* network requests issued by fetch(url), in order; index = promise
    calls,      \* history of cachedFetch calls: url, returned promise, its state then
    date,           \* upstream time: the instant of the latest upstream record
    upIntervals,    \* upstream intervals feed of the tracked driver (append-only)
    upLaps,         \* upstream laps feed of the tracked driver (append-only)
    activeTab,      \* HomeDashboard.activeTab
    liveIntervals,  \* liveData.intervals
    liveLaps,       \* liveData.laps
    tension,        \* the TensionState held by useReducer(tensionReducer)
    detected,       \* number of discontinuities detected so far (reducer inputs)
    lastBatch,      \* the events of the latest INTERVALS_UPDATE action
    merged,         \* every event the reducer accepted as new, in order
    window,         \* buildFromIntervals on its own: the `intervals` argument
    windowLaps,     \* the `laps` argument
    returned,          \* the value returned for them, once the call was made
    bestTimes,      \* usePurpleSectorToasts: bestTimes.current
    lastNotified,   \* lastNotified.current, a set of dedupe keys
    initialized,    \* initialized.current
    pollPhase,      \* the tracker's poll: "fetching", "resolved" or "handled"
    lapsResponse,   \* what the latest poll's cachedFetch resolved with, if it did
    toastCount,     \* number of toast() calls per (sector key, driver, value)
    driver,         \* LivePositionCard: the `driver` prop
    circuit,        \* the `circuit` state: the loaded layout, if any
    driverPos,      \* the `driverPos` state
    activeCorner,   \* the `activeCorner` state
    prevCornerRef,  \* prevCornerRef.current
    layoutRequest,  \* the fetchCircuitLayout promise of the mount: "pending" or "settled"
    locationPolls,  \* location polls in flight: the driver number asked for, the circuit the closure holds, its stale flag
    issuedPolls,    \* number of location polls issued so far
    smoothCalls,     \* the smoothCorner calls of the latest step: arguments, previous corner, result
    pitDriver,      \* VenueDashboard: the `driver` passed to PitStrategyCard
    pitMounted,     \* whether PitStrategyCard is mounted (the pit tab is active)
    fetchCache,     \* _fetchCache : driver -> promise; DOMAIN = keys of the Map
    pitFetches,     \* the doFetch promises created, in order: driver, whether settled
    pitHandlers,    \* the .then handlers of the load effect that are not finished
    deleteTimers,   \* pending `setTimeout(() => _fetchCache.delete(driver), 2_000)`, oldest first
    phase,          \* the `phase` state
    pitData,        \* the `pitData` state: the promise whose result is shown, if any
    loadRuns,        \* number of runs of the load effect so far
    lapFeed,        \* current-lap derivation on its own: the lap records, ascending by date_start
    cutoff,         \* the cutoff instant
    startLapEnv,    \* NEXT_PUBLIC_SIM_START_LAP, if set
    derived,         \* the current lap each copy of the loop derived, once they ran
    stintTable,     \* stint derivation on its own: the upstream stint table, ascending by lap_start
    tyreLap,        \* the current lap
    stintView,       \* what the home tyre panel and fetchPitData derived, once they ran
    circuitLayoutCache, \* track-map.tsx: _circuitLayoutCache of each page, the cached promise if any
    circuitRequests,\* the fetch("/api/circuit") requests issued, in order: where each stands
    routeCached,    \* the circuit route: whether `cached` is set
    upstreamRequests,\* number of requests the circuit route sent upstream
    circuitCalls,    \* number of fetchCircuitLayout calls so far
    feedStints,     \* fetchPitData on its own: the upstream stint table
    simInstant,          \* the simulated instant of the call
    failedFeeds,    \* the feeds whose request fails during the call
    pitResult,       \* the PitData the call resolved with, once it did
    simOrigin,      \* lib/simulation.ts: _simOrigin, the parsed NEXT_PUBLIC_SIM_TIME if set
    realOrigin,     \* _realOrigin
    dateNow,        \* what Date.now() returns, in milliseconds
    nowCalls,        \* the now() calls so far: Date.now() at the call and the instant returned
    homeDriver,     \* HomeDashboard: the `driver` state
    homeNow,        \* Date.now() as the home dashboard reads it, in milliseconds
    lastLiveDataFetchTime,\* _lastLiveDataFetchTime
    timerDue,       \* when the setInterval timer of the live poll effect fires next
    homePolls,      \* polls awaiting Promise.all: driver number and tab of the closure, simTime, cycle, stale flag
    issuedHomePolls,\* number of polls that passed the debounce so far
    liveCurrentLap, \* liveData.currentLap
    liveStints,     \* liveData.stints
    shownFrom,      \* the poll cycle that set the current lap and the one that set the stints, if any
    aiRequests,     \* tension-analysis requests in flight, by number
    aiIssued,       \* number of tension-analysis requests issued so far
    issuedAtReset   \* aiIssued when the reducer last handled RESET

cacheVars == <<clock, urlCache, reqs, calls>>

feedVars == <<date, upIntervals, upLaps>>

tensionVars == <<activeTab, liveIntervals, liveLaps, tension>>

batchVars == <<detected, lastBatch, merged>>

detectorVars == <<window, windowLaps, returned>>

bestVars == <<bestTimes, lastNotified, initialized, pollPhase, lapsResponse, toastCount>>

cornerVars == <<driver, circuit, driverPos, activeCorner, prevCornerRef, layoutRequest, locationPolls, issuedPolls, smoothCalls>>

pitVars == <<pitDriver, pitMounted, fetchCache, pitFetches, pitHandlers, deleteTimers, phase, pitData, loadRuns>>

lapVars == <<lapFeed, cutoff, startLapEnv, derived>>

tyreVars == <<stintTable, tyreLap, stintView>>

circuitVars == <<circuitLayoutCache, circuitRequests, routeCached, upstreamRequests, circuitCalls>>

pitDataVars == <<feedStints, simInstant, failedFeeds, pitResult>>

clockVars == <<simOrigin, realOrigin, dateNow, nowCalls>>

homeVars == <<homeDriver, homeNow, lastLiveDataFetchTime, timerDue, homePolls, issuedHomePolls, liveCurrentLap, liveStints, shownFrom, aiRequests, aiIssued, issuedAtReset>>

vars == <<cacheVars, feedVars, tensionVars, batchVars, detectorVars, bestVars, cornerVars, pitVars, lapVars, tyreVars, circuitVars, pitDataVars, clockVars, homeVars>>

\* what the steps of each subsystem leave alone
notCache == <<feedVars, tensionVars, batchVars, detectorVars, bestVars, cornerVars, pitVars, lapVars, tyreVars, circuitVars, pitDataVars, clockVars, homeVars>>

notTension == <<cacheVars, batchVars, detectorVars, bestVars, cornerVars, pitVars, lapVars, tyreVars, circuitVars, pitDataVars, clockVars, homeVars>>

notReducer == <<cacheVars, feedVars, activeTab, liveIntervals, liveLaps, detectorVars, bestVars, cornerVars, pitVars, lapVars, tyreVars, circuitVars, pitDataVars, clockVars, homeVars>>

notDetector == <<cacheVars, feedVars, tensionVars, batchVars, bestVars, cornerVars, pitVars, lapVars, tyreVars, circuitVars, pitDataVars, clockVars, homeVars>>

notBest == <<cacheVars, feedVars, tensionVars, batchVars, detectorVars, cornerVars, pitVars, lapVars, tyreVars, circuitVars, pitDataVars, clockVars, homeVars>>

notCorner == <<cacheVars, feedVars, tensionVars, batchVars, detectorVars, bestVars, pitVars, lapVars, tyreVars, circuitVars, pitDataVars, clockVars, homeVars>>

notPit == <<cacheVars, feedVars, tensionVars, batchVars, detectorVars, bestVars, cornerVars, lapVars, tyreVars, circuitVars, pitDataVars, clockVars, homeVars>>

notLap == <<cacheVars, feedVars, tensionVars, batchVars, detectorVars, bestVars, cornerVars, pitVars, tyreVars, circuitVars, pitDataVars, clockVars, homeVars>>

notTyre == <<cacheVars, feedVars, tensionVars, batchVars, detectorVars, bestVars, cornerVars, pitVars, lapVars, circuitVars, pitDataVars, clockVars, homeVars>>

notCircuit == <<cacheVars, feedVars, tensionVars, batchVars, detectorVars, bestVars, cornerVars, pitVars, lapVars, tyreVars, pitDataVars, clockVars, homeVars>>

notPitData == <<cacheVars, feedVars, tensionVars, batchVars, detectorVars, bestVars, cornerVars, pitVars, lapVars, tyreVars, circuitVars, clockVars, homeVars>>

notClock == <<cacheVars, feedVars, tensionVars, batchVars, detectorVars, bestVars, cornerVars, pitVars, lapVars, tyreVars, circuitVars, pitDataVars, homeVars>>

notHome == <<cacheVars, feedVars, tensionVars, batchVars, detectorVars, bestVars, cornerVars, pitVars, lapVars, tyreVars, circuitVars, pitDataVars, clockVars>>

\* what the steps of the home dashboard leave alone besides the tension state
homeRest == <<cacheVars, feedVars, batchVars, detectorVars, bestVars, cornerVars, pitVars, lapVars, tyreVars, circuitVars, pitDataVars, clockVars>>

(***************************************************************************)
(* Bounds of the model                                                     *)
(***************************************************************************)
TickMs == 10000        \* granularity of the clock steps
MaxClock == 60000      \* the clock stops advancing here
MaxReqs == 3           \* network requests issued in one behaviour
MaxCalls == 4          \* cachedFetch calls in one behaviour

Urls == {"laps", "stints"}

(***************************************************************************)
(* lib/simulation.ts : cachedFetch                                         *)
(***************************************************************************)
CacheTtlMs == 30000

\* mutant of Fresh: the entry is still reused at exactly 30 s
FreshInclusive(ts, t) == t - ts <= CacheTtlMs

\* `Date.now() - entry.ts < 30_000`
Fresh(ts, t) == t - ts < CacheTtlMs

\* mutant of Evict: the rejected entry is left to expire
EvictNever(cache, url) == cache

\* `_urlCache.delete(url)` in the catch handler
Evict(cache, url) == [u \in (DOMAIN cache) \ {url} |-> cache[u]]

\* `entry && Date.now() - entry.ts < 30_000`
CacheHit(url) == url \in DOMAIN urlCache /\ Fresh(urlCache[url].ts, clock)

\* `_urlCache.set(url, { promise, ts: Date.now() })`
CacheSet(cache, url, p, t) ==
    [u \in (DOMAIN cache) \cup {url} |->
        IF u = url THEN [promise |-> p, ts |-> t] ELSE cache[u]]

CacheInit ==
    /\ clock = 0
    /\ urlCache = << >>
    /\ reqs = << >>
    /\ calls = << >>

\* one call of cachedFetch(url)
CachedFetch(url) ==
    /\ Len(calls) < MaxCalls
    /\ IF CacheHit(url)
       THEN /\ calls' = Append(calls, [url |-> url,
                                       promise |-> urlCache[url].promise,
                                       state |-> reqs[urlCache[url].promise].state])
            /\ UNCHANGED <<urlCache, reqs>>
       ELSE /\ Len(reqs) < MaxReqs
            /\ reqs' = Append(reqs, [url |-> url, ts |-> clock, state |-> "pending"])
            /\ urlCache' = CacheSet(urlCache, url, Len(reqs) + 1, clock)
            /\ calls' = Append(calls, [url |-> url,
                                       promise |-> Len(reqs) + 1,
                                       state |-> "pending"])
    /\ UNCHANGED <<clock, notCache>>

\* the response of request p arrives with r.ok and parses: the promise fulfils
FetchOk(p) ==
    /\ p \in DOMAIN reqs
    /\ reqs[p].state = "pending"
    /\ reqs' = [reqs EXCEPT ![p].state = "fulfilled"]
    /\ UNCHANGED <<clock, urlCache, calls, notCache>>

\* network error, non-ok status or malformed body: the catch handler runs
FetchFail(p) ==
    /\ p \in DOMAIN reqs
    /\ reqs[p].state = "pending"
    /\ urlCache' = Evict(urlCache, reqs[p].url)
    /\ reqs' = [reqs EXCEPT ![p].state = "rejected"]
    /\ UNCHANGED <<clock, calls, notCache>>

\* real time passes
Tick ==
    /\ clock < MaxClock
    /\ clock' = clock + TickMs
    /\ UNCHANGED <<urlCache, reqs, calls, notCache>>

CacheNext ==
    \/ \E url \in Urls : CachedFetch(url)
    \/ \E p \in 1..MaxReqs : FetchOk(p)
    \/ \E p \in 1..MaxReqs : FetchFail(p)
    \/ Tick

(***************************************************************************)
(* Nullable values: `null` is the empty set, a value v is {v}              *)
(***************************************************************************)
Null == {}

Some(v) == {v}

Get(o) == CHOOSE v \in o : TRUE

Abs(x) == IF x < 0 THEN -x ELSE x

Min(a, b) == IF a < b THEN a ELSE b

Last(q) == q[Len(q)]

\* Array.prototype.slice(-n)
SliceLast(q, n) == SubSeq(q, Len(q) - Min(n, Len(q)) + 1, Len(q))

\* Array.prototype.slice(0, n)
SliceFirst(q, n) == SubSeq(q, 1, Min(n, Len(q)))

(***************************************************************************)
(* components/welcome-screen.tsx : buildFromIntervals                      *)
(* Intervals are in hundredths of a second, instants are integers.         *)
(***************************************************************************)
StartLap == 30          \* getStartLap(30) with no override configured
ProximityCs == 150      \* 1.5 s
JumpCs == 200           \* 2.0 s
DrsCs == 100            \* 1.0 s
GapWindow == 12         \* slice(-12)
MaxOvertakes == 20      \* slice(0, 20)

\* Number.prototype.toFixed(1): the value in tenths, rounded to the nearest
ToFixed1(v) == IF v < 0 THEN -((-v + 5) \div 10) ELSE (v + 5) \div 10

\* String.prototype.toLowerCase on a description
ToLowerCase(d) == [d EXCEPT !.upper = FALSE]

\* String.prototype.trim on a description
Trim(d) == [d EXCEPT !.padded = FALSE]

\* `o.description.toLowerCase().trim()`
Normalized(d) == Trim(ToLowerCase(d))

RECURSIVE ToLapFrom(_, _, _, _)
\* the loop of toLap from index i on, `best` being the value so far
ToLapFrom(laps, t, i, best) ==
    IF i > Len(laps) THEN best
    ELSE IF laps[i].date_start <= t
         THEN ToLapFrom(laps, t, i + 1, laps[i].lap_number)
         ELSE best

\* toLap(dateStr)
ToLap(laps, t) == ToLapFrom(laps, t, 1, StartLap)

\* `intervals.filter((r) => r.interval != null)`
ValidIntervals(intervals) == SelectSeq(intervals, LAMBDA r : r.interval # Null)

\* mutant of IsAttacking: the proximity test reads the current sample
IsAttackingCurr(prev, curr) == curr <= ProximityCs /\ curr - prev > JumpCs

\* `prev <= 1.5 && delta > 2.0`
IsAttacking(prev, curr) == prev <= ProximityCs /\ curr - prev > JumpCs

\* `prev > 2.0 && delta < -2.0 && curr <= 1.5`
IsDefending(prev, curr) ==
    prev > JumpCs /\ curr - prev < -JumpCs /\ curr <= ProximityCs

\* the template literals of the two descriptions: kind, driver number, lap
\* and the two intervals formatted by toFixed(1); all lower case, unpadded
Description(kind, driverNum, lap, prev, curr) ==
    [kind |-> kind, driverNum |-> driverNum, lap |-> lap,
     prev |-> ToFixed1(prev), curr |-> ToFixed1(curr),
     upper |-> FALSE, padded |-> FALSE]

\* the gap snapshot pushed for valid[i]
GapAt(valid, i) ==
    LET gap == Get(valid[i].interval)
        prevGap == IF i > 1 THEN Get(valid[i - 1].interval) ELSE gap
    IN [lap |-> i - 1,
        gap |-> Abs(gap),
        closingRate |-> prevGap - gap,
        drsActive |-> Abs(gap) <= DrsCs]

\* the overtake events pushed for valid[i]: none or one
OvertakesAt(valid, i, laps, driverNum) ==
    IF i = 1 THEN << >>
    ELSE LET prev == Get(valid[i - 1].interval)
             curr == Get(valid[i].interval)
             lap == ToLap(laps, valid[i].date)
         IN IF IsAttacking(prev, curr)
            THEN << [id |-> valid[i].date, lap |-> lap,
                     description |-> Description("overtook", driverNum, lap, prev, curr),
                     type |-> "ATTACKING", driverNumber |-> driverNum] >>
            ELSE IF IsDefending(prev, curr)
            THEN << [id |-> valid[i].date, lap |-> lap,
                     description |-> Description("lost a position", driverNum, lap, prev, curr),
                     type |-> "DEFENDING", driverNumber |-> driverNum] >>
            ELSE << >>

RECURSIVE OvertakesUpTo(_, _, _, _)
\* the `overtakes` array after the first n iterations of the loop
OvertakesUpTo(valid, n, laps, driverNum) ==
    IF n = 0 THEN << >>
    ELSE OvertakesUpTo(valid, n - 1, laps, driverNum)
            \o OvertakesAt(valid, n, laps, driverNum)

BuildFromIntervals(intervals, laps, driverNum) ==
    LET valid == ValidIntervals(intervals)
    IN [gaps |-> [i \in 1..Len(valid) |-> GapAt(valid, i)],
        overtakes |-> OvertakesUpTo(valid, Len(valid), laps, driverNum)]

(***************************************************************************)
(* components/welcome-screen.tsx : tensionReducer                          *)
(***************************************************************************)
TensionInit ==
    [bullets |-> << >>, gapHistory |-> << >>, overtakes |-> << >>,
     lastOvertake |-> Null, loading |-> FALSE, error |-> Null]

\* `action.overtakes.filter((o) => !existingDescs.has(...))`
NewOvertakes(state, overtakes) ==
    LET existingDescs ==
            {Normalized(state.overtakes[i].description) : i \in DOMAIN state.overtakes}
    IN SelectSeq(overtakes, LAMBDA o : Normalized(o.description) \notin existingDescs)

\* case "INTERVALS_UPDATE"
IntervalsUpdate(state, gaps, overtakes) ==
    LET newOvertakes == NewOvertakes(state, overtakes)
    IN [state EXCEPT
          !.gapHistory = SliceLast(gaps, GapWindow),
          !.overtakes = SliceFirst(state.overtakes \o newOvertakes, MaxOvertakes),
          !.lastOvertake = IF Len(newOvertakes) > 0
                           THEN Some(Last(newOvertakes))
                           ELSE state.lastOvertake]

(***************************************************************************)
(* The upstream feeds and the home dashboard's poll                        *)
(***************************************************************************)
MaxSamples == 4         \* interval samples published upstream
MaxLapNumber == 2       \* laps started upstream

IntervalValues == {Null, Some(150), Some(354)}

Tabs == {"telemetry", "tension", "tyre"}

DriverNum == "23"

FeedInit ==
    /\ date = 0
    /\ upIntervals = << >>
    /\ upLaps = << [lap_number |-> 1, date_start |-> 0] >>

TensionTrackerInit ==
    /\ activeTab = "telemetry"
    /\ liveIntervals = << >>
    /\ liveLaps = << >>
    /\ tension = TensionInit

\* upstream publishes an interval sample
PublishInterval(v) ==
    /\ Len(upIntervals) < MaxSamples
    /\ date' = date + 1
    /\ upIntervals' = Append(upIntervals, [interval |-> v, date |-> date + 1])
    /\ UNCHANGED <<upLaps, tensionVars, notTension>>

\* upstream publishes the start of the next lap
PublishLap ==
    /\ Len(upLaps) < MaxLapNumber
    /\ date' = date + 1
    /\ upLaps' = Append(upLaps, [lap_number |-> Len(upLaps) + 1, date_start |-> date + 1])
    /\ UNCHANGED <<upIntervals, tensionVars, notTension>>

\* `setActiveTab(tab.id)`
SetActiveTab(tab) ==
    /\ tab # activeTab
    /\ activeTab' = tab
    /\ UNCHANGED <<feedVars, liveIntervals, liveLaps, tension, notTension>>

\* the interval effect of TensionTracker, run on the committed liveData
IntervalEffect(state, intervals, laps, driverNum) ==
    IF Len(intervals) > 0
    THEN LET built == BuildFromIntervals(SliceLast(intervals, GapWindow), laps, driverNum)
         IN IntervalsUpdate(state, built.gaps, built.overtakes)
    ELSE state

\* a poll of the home dashboard resolves and is applied by setLiveData; the
\* laps request and the intervals request each succeeded or failed (`[]`),
\* the intervals are requested on the tension tab only; the interval effect
\* follows because liveData.laps is a new array after every applied poll
PollApplied(lapsOk, intervalsOk) ==
    /\ liveLaps' = IF lapsOk THEN upLaps ELSE << >>
    /\ liveIntervals' = IF activeTab = "tension"
                         THEN (IF intervalsOk THEN upIntervals ELSE << >>)
                         ELSE liveIntervals
    /\ tension' = IntervalEffect(tension, liveIntervals', liveLaps', DriverNum)
    /\ UNCHANGED <<feedVars, activeTab, notTension>>

TensionNext ==
    \/ \E v \in IntervalValues : PublishInterval(v)
    \/ PublishLap
    \/ \E tab \in Tabs : SetActiveTab(tab)
    \/ \E lapsOk, intervalsOk \in BOOLEAN : PollApplied(lapsOk, intervalsOk)

(***************************************************************************)
(* The reducer on its own: INTERVALS_UPDATE actions whose events are those *)
(* of successive overlapping windows.  Discontinuity n has instant n; the  *)
(* events of a window are a suffix of the previous window's events         *)
(* followed by newly detected ones.                                        *)
(***************************************************************************)
MaxDetected == 23       \* discontinuities detected in one behaviour

\* the event buildFromIntervals makes of discontinuity `at` on lap `lap`
EventOf(at, lap) ==
    [id |-> at, lap |-> lap,
     description |-> Description("overtook", DriverNum, lap, 150, 354),
     type |-> "ATTACKING", driverNumber |-> DriverNum]

\* the same event with its description in another case or padding
Respelled(e, upper, padded) ==
    [e EXCEPT !.description.upper = upper, !.description.padded = padded]

\* the lap of the latest detected discontinuity
LatestLap == IF Len(lastBatch) = 0 THEN 0 ELSE Last(lastBatch).lap

\* newly detected events: none, one, or two on successive laps (a window that
\* holds one description twice is a case of SpecTension)
FreshEvents ==
    {<< >>,
     << EventOf(detected + 1, LatestLap + 1) >>,
     << EventOf(detected + 1, LatestLap + 1), EventOf(detected + 2, LatestLap + 2) >>}

\* events of the previous window that the next window derives again
Rederived ==
    {<< >>} \cup
    (IF Len(lastBatch) = 0 THEN {}
     ELSE {<< Respelled(Last(lastBatch), u, p) >> : u, p \in BOOLEAN})

ReducerInit ==
    /\ detected = 0
    /\ lastBatch = << >>
    /\ merged = << >>

\* the gap snapshots of a window with n + 1 samples that holds n discontinuities
GapsOfWindow(n) ==
    LET valid == [i \in 1..(n + 1) |->
                    [interval |-> Some(IF i % 2 = 1 THEN 150 ELSE 354), date |-> i]]
    IN [i \in 1..(n + 1) |-> GapAt(valid, i)]

\* dispatch({ type: "INTERVALS_UPDATE", gaps, overtakes })
DispatchIntervalsUpdate(old, fresh) ==
    /\ Len(old) + Len(fresh) > 0
    /\ detected + Len(fresh) <= MaxDetected
    /\ LET overtakes == old \o fresh
       IN /\ Len(merged) + Len(NewOvertakes(tension, overtakes)) <= MaxDetected
          /\ tension' = IntervalsUpdate(tension, GapsOfWindow(Len(overtakes)), overtakes)
          /\ merged' = merged \o NewOvertakes(tension, overtakes)
          /\ lastBatch' = overtakes
    /\ detected' = detected + Len(fresh)
    /\ UNCHANGED notReducer

ReducerNext ==
    \E old \in Rederived : \E fresh \in FreshEvents : DispatchIntervalsUpdate(old, fresh)

(***************************************************************************)
(* buildFromIntervals on its own: one call on a window of samples whose    *)
(* intervals lie on both sides of the 1.5 s and 2.0 s thresholds.          *)
(***************************************************************************)
MaxWindow == 3          \* samples in the window

ThresholdValues == {Null, Some(150), Some(151), Some(350), Some(351), Some(352)}

RECURSIVE WindowsUpTo(_)
\* the windows of at most n samples; the i-th sample has instant i
WindowsUpTo(n) ==
    IF n = 0 THEN {<< >>}
    ELSE LET shorter == WindowsUpTo(n - 1)
         IN shorter \cup {Append(q, [interval |-> v, date |-> n]) :
                            q \in {w \in shorter : Len(w) = n - 1},
                            v \in ThresholdValues}

\* lap feeds: none, one lap, or a second lap that starts at instant 2
LapFeeds ==
    {<< >>,
     << [lap_number |-> 1, date_start |-> 0] >>,
     << [lap_number |-> 1, date_start |-> 0], [lap_number |-> 2, date_start |-> 2] >>}

DetectorInit ==
    /\ window \in WindowsUpTo(MaxWindow)
    /\ windowLaps \in LapFeeds
    /\ returned = Null

\* `buildFromIntervals(recent, liveData.laps, driverNum)`
Build ==
    /\ returned = Null
    /\ returned' = Some(BuildFromIntervals(window, windowLaps, DriverNum))
    /\ UNCHANGED <<window, windowLaps, notDetector>>

DetectorNext == Build

(***************************************************************************)
(* usePurpleSectorToasts: the session-best tracker.  Durations are in      *)
(* milliseconds.                                                           *)
(***************************************************************************)
Infinity == 1000000     \* above every duration

MaxLapsPerPoll == 2     \* lap entries in one poll response

WilliamsDrivers == {23, 55}

Drivers == WilliamsDrivers \cup {1}

\* `sectors`, in the order the loops visit the keys
Sectors == <<"sector_1_duration", "sector_2_duration", "sector_3_duration", "lap_duration">>

SectorKeys == {Sectors[k] : k \in DOMAIN Sectors}

\* the timing of a lap entry: a clean lap with the fastest sector, a slower
\* sector of a lap still running, a pit-out lap with the fastest sector, and
\* a sector reported as zero
LapTimings ==
    {[is_pit_out_lap |-> FALSE, sector_1_duration |-> Some(30100), lap_duration |-> Some(91500)],
     [is_pit_out_lap |-> FALSE, sector_1_duration |-> Some(30200), lap_duration |-> Null],
     [is_pit_out_lap |-> TRUE, sector_1_duration |-> Some(30100), lap_duration |-> Null],
     [is_pit_out_lap |-> FALSE, sector_1_duration |-> Some(0), lap_duration |-> Null]}

\* lap entries of the feed; the two middle sectors are not timed in them
LapEntries ==
    {[driver_number |-> d, is_pit_out_lap |-> t.is_pit_out_lap,
      sector_1_duration |-> t.sector_1_duration, sector_2_duration |-> Null,
      sector_3_duration |-> Null, lap_duration |-> t.lap_duration] :
        d \in Drivers, t \in LapTimings}

RECURSIVE SeqsUpTo(_, _)
\* the sequences over S of length at most n
SeqsUpTo(S, n) ==
    IF n = 0 THEN {<< >>}
    ELSE LET shorter == SeqsUpTo(S, n - 1)
         IN shorter \cup {Append(q, x) : q \in shorter, x \in S}

\* what the poll's promise resolves with: an array of lap entries, or a body
\* that is not an array
LapsResponses ==
    {[isArray |-> TRUE, laps |-> q] : q \in SeqsUpTo(LapEntries, MaxLapsPerPoll)}
        \cup {[isArray |-> FALSE, laps |-> << >>]}

BestInit ==
    /\ bestTimes = [key \in SectorKeys |-> Infinity]
    /\ lastNotified = {}
    /\ initialized = FALSE
    /\ pollPhase = "fetching"
    /\ lapsResponse = Null
    /\ toastCount = [t \in {} |-> 0]

\* `laps.filter((l) => !l.is_pit_out_lap)`
ValidLaps(laps) == SelectSeq(laps, LAMBDA l : ~l.is_pit_out_lap)

\* mutant of Improves: every valid value replaces the running best
ImprovesAlways(val, best) == val # Null /\ Get(val) > 0

\* `val != null && val > 0 && val < newBests[key]`
Improves(val, best) == val # Null /\ Get(val) > 0 /\ Get(val) < best

RECURSIVE FirstPass(_, _, _)
\* the first pass from lap i on: newBests after the remaining laps
FirstPass(validLaps, i, newBests) ==
    IF i > Len(validLaps) THEN newBests
    ELSE FirstPass(validLaps, i + 1,
            [key \in SectorKeys |->
                IF Improves(validLaps[i][key], newBests[key])
                THEN Get(validLaps[i][key])
                ELSE newBests[key]])

\* `${key}-${lap.driver_number}-${val}`
DedupeKey(key, driverNumber, val) == <<key, driverNumber, val>>

\* mutant of AlreadyNotified: the dedupe set is never consulted
NeverNotified(notified, dedupeKey) == FALSE

\* `lastNotified.current.has(dedupeKey)`
AlreadyNotified(notified, dedupeKey) == dedupeKey \in notified

\* mutant of IsNewBest: holding the recorded best counts as a new best
IsNewBestOrEqual(val, oldBest) == val <= oldBest \/ oldBest = Infinity

\* `val < bestTimes.current[key] || bestTimes.current[key] === Infinity`
IsNewBest(val, oldBest) == val < oldBest \/ oldBest = Infinity

\* one more toast() call for a dedupe key
CountToast(count, dedupeKey) ==
    [t \in (DOMAIN count) \cup {dedupeKey} |->
        IF t = dedupeKey
        THEN (IF t \in DOMAIN count THEN count[t] + 1 ELSE 1)
        ELSE count[t]]

\* the body of the inner loop for one key of one lap of a Williams driver;
\* acc = [notified, count]
KeyStep(lap, key, acc, newBests, oldBests) ==
    LET val == lap[key]
        dedupeKey == DedupeKey(key, lap.driver_number, Get(val))
    IN IF val = Null \/ Get(val) <= 0 THEN acc
       ELSE IF Get(val) > newBests[key] THEN acc
       ELSE IF AlreadyNotified(acc.notified, dedupeKey) THEN acc
       ELSE IF IsNewBest(Get(val), oldBests[key])
            THEN [notified |-> acc.notified \cup {dedupeKey},
                  count |-> CountToast(acc.count, dedupeKey)]
            ELSE acc

RECURSIVE KeysFrom(_, _, _, _, _)
\* the inner loop from the k-th key on
KeysFrom(lap, k, acc, newBests, oldBests) ==
    IF k > Len(Sectors) THEN acc
    ELSE KeysFrom(lap, k + 1, KeyStep(lap, Sectors[k], acc, newBests, oldBests),
                  newBests, oldBests)

RECURSIVE SecondPass(_, _, _, _, _)
\* the second pass from lap i on
SecondPass(validLaps, i, acc, newBests, oldBests) ==
    IF i > Len(validLaps) THEN acc
    ELSE IF validLaps[i].driver_number \notin WilliamsDrivers
         THEN SecondPass(validLaps, i + 1, acc, newBests, oldBests)
         ELSE SecondPass(validLaps, i + 1,
                         KeysFrom(validLaps[i], 1, acc, newBests, oldBests),
                         newBests, oldBests)

\* poll(), called by the interval timer: the request is issued
Poll ==
    /\ pollPhase = "handled"
    /\ pollPhase' = "fetching"
    /\ lapsResponse' = Null
    /\ UNCHANGED <<bestTimes, lastNotified, initialized, toastCount, notBest>>

\* the poll's cachedFetch resolves
LapsResolved(response) ==
    /\ pollPhase = "fetching"
    /\ pollPhase' = "resolved"
    /\ lapsResponse' = Some(response)
    /\ UNCHANGED <<bestTimes, lastNotified, initialized, toastCount, notBest>>

\* the poll's cachedFetch rejects: `.catch(() => {})`
LapsRejected ==
    /\ pollPhase = "fetching"
    /\ pollPhase' = "handled"
    /\ UNCHANGED <<bestTimes, lastNotified, initialized, lapsResponse, toastCount, notBest>>

\* mutant of SecondPassRuns: the second pass also runs on the first poll
SecondPassAlways(init) == TRUE

\* `if (initialized.current)`
SecondPassRuns(init) == init

\* the two passes of the handler over an array of laps: the new bests, the
\* dedupe set and the toast counts it leaves
Passes(laps, oldBests, notified, count, init) ==
    LET validLaps == ValidLaps(laps)
        newBests == FirstPass(validLaps, 1, oldBests)
    IN [newBests |-> newBests,
        acc |-> IF SecondPassRuns(init)
                THEN SecondPass(validLaps, 1, [notified |-> notified, count |-> count],
                                newBests, oldBests)
                ELSE [notified |-> notified, count |-> count]]

\* the `.then((laps) => ...)` handler of poll()
LapsHandled ==
    /\ pollPhase = "resolved"
    /\ pollPhase' = "handled"
    /\ UNCHANGED lapsResponse
    /\ IF ~Get(lapsResponse).isArray
       THEN UNCHANGED <<bestTimes, lastNotified, initialized, toastCount>>
       ELSE \E out \in {Passes(Get(lapsResponse).laps, bestTimes, lastNotified,
                                toastCount, initialized)} :
               /\ bestTimes' = out.newBests
               /\ initialized' = TRUE
               /\ lastNotified' = out.acc.notified
               /\ toastCount' = out.acc.count
    /\ UNCHANGED notBest

BestNext ==
    \/ Poll
    \/ \E response \in LapsResponses : LapsResolved(response)
    \/ LapsRejected
    \/ LapsHandled

(***************************************************************************)
(* LivePositionCard: the location poll, findNearestCorner and the corner   *)
(* hysteresis smoothCorner.  Coordinates are in track units.               *)
(***************************************************************************)
MaxPolls == 4           \* location polls issued in one behaviour

NumCorners == 20        \* corners of the layout

MaxJump == 4            \* `wrappedDiff <= 4`
AcceptRadius == 100     \* `dx * dx + dy * dy <= 100 * 100`
HighlightRadius == 200  \* `bestDist > 200 * 200`

DriverIds == {"albon", "sainz"}

\* `driver === "albon" ? "23" : "55"`
DriverNumOf(d) == IF d = "albon" THEN "23" ELSE "55"

\* the corners of the layout: corner k lies at (1000 k, 0), but corners 11 and
\* 16 lie on a parallel section, 300 units beside corners 1 and 6
CornerAt(k) ==
    IF k = 11 THEN [x |-> 1000, y |-> 300]
    ELSE IF k = 16 THEN [x |-> 6000, y |-> 300]
    ELSE [x |-> 1000 * k, y |-> 0]

Layout == [corners |-> [k \in 1..NumCorners |-> [number |-> k, trackPosition |-> CornerAt(k)]]]

\* where the location feed puts each car: at, near and between the corners of
\* its part of the track, and once away from every corner
LocationsOf(driverNum) ==
    IF driverNum = "23"
    THEN {[x |-> 1000, y |-> 10], [x |-> 1000, y |-> 101], [x |-> 1000, y |-> 199],
          [x |-> 1000, y |-> 200], [x |-> 2000, y |-> 0], [x |-> 1000, y |-> 600]}
    ELSE {[x |-> 6000, y |-> 10], [x |-> 6000, y |-> 101], [x |-> 6000, y |-> 199],
          [x |-> 6000, y |-> 200], [x |-> 7000, y |-> 0]}

\* `dx * dx + dy * dy`
SqDist(pos, at) == (pos.x - at.x) * (pos.x - at.x) + (pos.y - at.y) * (pos.y - at.y)

RECURSIVE NearestFrom(_, _, _, _, _)
\* the loop of findNearestCorner from corner i on: the index of `best`
NearestFrom(pos, corners, i, best, bestDist) ==
    IF i > Len(corners) THEN [best |-> best, bestDist |-> bestDist]
    ELSE LET d == SqDist(pos, corners[i].trackPosition)
         IN IF bestDist = Null \/ d < Get(bestDist)
            THEN NearestFrom(pos, corners, i + 1, i, Some(d))
            ELSE NearestFrom(pos, corners, i + 1, best, bestDist)

\* findNearestCorner(pos, corners); bestDist starts at Infinity (here: none)
FindNearestCorner(pos, corners) ==
    IF Len(corners) = 0 THEN Null
    ELSE LET found == NearestFrom(pos, corners, 1, 1, Null)
         IN IF Get(found.bestDist) > HighlightRadius * HighlightRadius THEN Null
            ELSE Some(corners[found.best].number)

\* mutant of WithinAcceptRadius: the radius itself is outside
InsideAcceptRadius(d) == d < AcceptRadius * AcceptRadius

\* `dx * dx + dy * dy <= 100 * 100`
WithinAcceptRadius(d) == d <= AcceptRadius * AcceptRadius

\* `corners.find(c => c.number === nearest)`: the index of the first match
FindCorner(corners, number) ==
    LET found == {i \in DOMAIN corners : corners[i].number = number}
    IN IF found = {} THEN Null ELSE Some(CHOOSE i \in found : \A j \in found : i <= j)

\* smoothCorner(nearest, corners, pos) with prevCornerRef.current = prev: the
\* value returned and prevCornerRef.current afterwards
SmoothCorner(nearest, corners, pos, prev) ==
    LET accept == [result |-> nearest, prev |-> nearest]
        total == Len(corners)
        diff == Abs(Get(nearest) - Get(prev))
        wrappedDiff == Min(diff, total - diff)
        corner == FindCorner(corners, Get(nearest))
    IN IF nearest = Null THEN [result |-> nearest, prev |-> prev]
       ELSE IF prev = Null THEN accept
       ELSE IF total = 0 THEN [result |-> nearest, prev |-> prev]
       ELSE IF wrappedDiff <= MaxJump THEN accept
       ELSE IF corner # Null
               /\ WithinAcceptRadius(SqDist(pos, corners[Get(corner)].trackPosition))
            THEN accept
       ELSE [result |-> prev, prev |-> prev]

\* `circuit?.corners ?? []`
CornersOf(c) == IF c = Null THEN << >> ELSE Get(c).corners

\* one smoothCorner call as a handler or an effect makes it, given the circuit
\* it sees: the record of the call
SmoothCall(c, pos, prev) ==
    LET nearest == IF c # Null THEN FindNearestCorner(pos, CornersOf(c)) ELSE Null
        out == SmoothCorner(nearest, CornersOf(c), pos, prev)
    IN [nearest |-> nearest, pos |-> pos, prev |-> prev, total |-> Len(CornersOf(c)),
        result |-> out.result, prevAfter |-> out.prev]

\* the cleanup of the poll effect: `stale = true` in every closure of the effect
Cleanup(polls) == [i \in DOMAIN polls |-> [polls[i] EXCEPT !.stale = TRUE]]

\* the poll effect runs: poll() issues the request of the new closure
StartPolling(polls, d, c) ==
    Append(Cleanup(polls), [driverNum |-> DriverNumOf(d), circuit |-> c, stale |-> FALSE])

\* mutant of ResetCorner: the remembered corner survives the driver change
KeepCorner(prev) == prev

\* `prevCornerRef.current = null` of the reset effect
ResetCorner(prev) == Null

\* the card is mounted for the first driver: the layout is requested and the
\* first location poll is issued
CornerInit ==
    /\ driver = "albon"
    /\ circuit = Null
    /\ driverPos = Null
    /\ activeCorner = Null
    /\ prevCornerRef = Null
    /\ layoutRequest = "pending"
    /\ locationPolls = StartPolling(<< >>, "albon", Null)
    /\ issuedPolls = 1
    /\ smoothCalls = << >>

\* the parent passes another driver: the reset effect, then the poll effect
\* are run again; the effect on [circuit, driverPos] is not, and finds
\* driverPos null after the next render
DriverChanged(d) ==
    /\ d # driver
    /\ issuedPolls < MaxPolls
    /\ driver' = d
    /\ prevCornerRef' = ResetCorner(prevCornerRef)
    /\ driverPos' = Null
    /\ activeCorner' = Null
    /\ locationPolls' = StartPolling(locationPolls, d, circuit)
    /\ issuedPolls' = issuedPolls + 1
    /\ smoothCalls' = << >>
    /\ UNCHANGED <<circuit, layoutRequest, notCorner>>

\* fetchCircuitLayout() resolves with the layout or with null; with a layout
\* the poll effect is run again and the effect on [circuit, driverPos] calls
\* smoothCorner for the position on display
LayoutResolved(layout) ==
    /\ layoutRequest = "pending"
    /\ layoutRequest' = "settled"
    /\ IF layout = Null
       THEN UNCHANGED <<circuit, locationPolls, issuedPolls, activeCorner, prevCornerRef>>
               /\ smoothCalls' = << >>
       ELSE /\ issuedPolls < MaxPolls
            /\ circuit' = layout
            /\ locationPolls' = StartPolling(locationPolls, driver, layout)
            /\ issuedPolls' = issuedPolls + 1
            /\ IF driverPos = Null
               THEN UNCHANGED <<activeCorner, prevCornerRef>> /\ smoothCalls' = << >>
               ELSE LET call == SmoothCall(layout, Get(driverPos), prevCornerRef)
                    IN /\ activeCorner' = call.result
                       /\ prevCornerRef' = call.prevAfter
                       /\ smoothCalls' = <<call>>
    /\ UNCHANGED <<driver, driverPos, notCorner>>

\* `setInterval(poll, 5_000)` fires in the live closure
TimerPoll ==
    /\ issuedPolls < MaxPolls
    /\ locationPolls' = Append(locationPolls,
                               [driverNum |-> DriverNumOf(driver), circuit |-> circuit,
                                stale |-> FALSE])
    /\ issuedPolls' = issuedPolls + 1
    /\ smoothCalls' = << >>
    /\ UNCHANGED <<driver, circuit, driverPos, activeCorner, prevCornerRef, layoutRequest,
                   notCorner>>

\* the sequence without its i-th element
RemoveAt(q, i) == SubSeq(q, 1, i - 1) \o SubSeq(q, i + 1, Len(q))

\* the location request of poll i resolves with a latest record at `pos`: the
\* handler, then the effect on [circuit, driverPos] with the new driverPos
LocationHandled(i, pos) ==
    /\ locationPolls' = RemoveAt(locationPolls, i)
    /\ IF locationPolls[i].stale
       THEN UNCHANGED <<driverPos, activeCorner, prevCornerRef>> /\ smoothCalls' = << >>
       ELSE LET first == SmoothCall(locationPolls[i].circuit, pos, prevCornerRef)
                second == SmoothCall(circuit, pos, first.prevAfter)
            IN /\ driverPos' = Some(pos)
               /\ IF circuit = Null
                  THEN /\ activeCorner' = first.result
                       /\ prevCornerRef' = first.prevAfter
                       /\ smoothCalls' = <<first>>
                  ELSE /\ activeCorner' = second.result
                       /\ prevCornerRef' = second.prevAfter
                       /\ smoothCalls' = <<first, second>>
    /\ UNCHANGED <<driver, circuit, layoutRequest, issuedPolls, notCorner>>

\* the location request of poll i resolves with no record or rejects
LocationDropped(i) ==
    /\ locationPolls' = RemoveAt(locationPolls, i)
    /\ smoothCalls' = << >>
    /\ UNCHANGED <<driver, circuit, driverPos, activeCorner, prevCornerRef, layoutRequest,
                   issuedPolls, notCorner>>

\* a location request in flight resolves with records
LocationResolved ==
    \E i \in DOMAIN locationPolls :
       \E pos \in LocationsOf(locationPolls[i].driverNum) : LocationHandled(i, pos)

\* a location request in flight resolves with no record, or rejects
LocationEmpty == \E i \in DOMAIN locationPolls : LocationDropped(i)

CornerNext ==
    \/ \E d \in DriverIds : DriverChanged(d)
    \/ \E layout \in {Null, Some(Layout)} : LayoutResolved(layout)
    \/ TimerPoll
    \/ LocationResolved
    \/ LocationEmpty

(***************************************************************************)
(* PitStrategyCard: the load effect on [driver] with the module-level      *)
(* _fetchCache of doFetch promises.                                        *)
(***************************************************************************)
MaxLoadRuns == 4        \* runs of the load effect in one behaviour

\* the load effect runs for driver d: a doFetch promise is created unless the
\* cache has one for d; fetches = the promises after that
FetchesAfterLoad(cache, fetches, d) ==
    IF d \in DOMAIN cache THEN fetches
    ELSE Append(fetches, [driver |-> d, settled |-> FALSE])

\* `if (!_fetchCache.has(driver)) _fetchCache.set(driver, doFetch(driver))`
CacheAfterLoad(cache, fetches, d) ==
    IF d \in DOMAIN cache THEN cache
    ELSE [k \in (DOMAIN cache) \cup {d} |-> IF k = d THEN Len(fetches) + 1 ELSE cache[k]]

\* the cleanup of the load effect: `stale = true` in the closure of its run
StaleAll(handlers) == [i \in DOMAIN handlers |-> [handlers[i] EXCEPT !.stale = TRUE]]

\* `_fetchCache.get(driver)!.then(...)` in a new closure
HandlersAfterLoad(cache, fetches, handlers, d) ==
    Append(StaleAll(handlers),
           [fetch |-> CacheAfterLoad(cache, fetches, d)[d], driver |-> d, stale |-> FALSE,
            stage |-> "waiting"])

\* `_fetchCache.delete(driver)`
CacheDelete(cache, d) == [k \in (DOMAIN cache) \ {d} |-> cache[k]]

PitInit ==
    /\ pitDriver = "albon"
    /\ pitMounted = FALSE
    /\ fetchCache = << >>
    /\ pitFetches = << >>
    /\ pitHandlers = << >>
    /\ deleteTimers = << >>
    /\ phase = "loading"
    /\ pitData = Null
    /\ loadRuns = 0

\* the load effect body for driver d
LoadEffect(d) ==
    /\ loadRuns < MaxLoadRuns
    /\ loadRuns' = loadRuns + 1
    /\ phase' = "loading"
    /\ pitData' = Null
    /\ pitFetches' = FetchesAfterLoad(fetchCache, pitFetches, d)
    /\ fetchCache' = CacheAfterLoad(fetchCache, pitFetches, d)
    /\ pitHandlers' = HandlersAfterLoad(fetchCache, pitFetches, pitHandlers, d)

\* the pit tab is selected: PitStrategyCard mounts
PitMount ==
    /\ ~pitMounted
    /\ pitMounted' = TRUE
    /\ LoadEffect(pitDriver)
    /\ UNCHANGED <<pitDriver, deleteTimers, notPit>>

\* another tab is selected: PitStrategyCard unmounts, its state is gone
PitUnmount ==
    /\ pitMounted
    /\ pitMounted' = FALSE
    /\ pitHandlers' = StaleAll(pitHandlers)
    /\ phase' = "loading"
    /\ pitData' = Null
    /\ UNCHANGED <<pitDriver, fetchCache, pitFetches, deleteTimers, loadRuns, notPit>>

\* the driver selector picks another driver
PitDriverChanged(d) ==
    /\ d # pitDriver
    /\ pitDriver' = d
    /\ IF pitMounted
       THEN LoadEffect(d)
       ELSE UNCHANGED <<fetchCache, pitFetches, pitHandlers, phase, pitData, loadRuns>>
    /\ UNCHANGED <<pitMounted, deleteTimers, notPit>>

\* fetchPitData settles (it resolves whatever the feeds did)
PitFetchSettled ==
    \E p \in DOMAIN pitFetches :
       /\ ~pitFetches[p].settled
       /\ pitFetches' = [pitFetches EXCEPT ![p].settled = TRUE]
       /\ UNCHANGED <<pitDriver, pitMounted, fetchCache, pitHandlers, deleteTimers, phase,
                      pitData, loadRuns, notPit>>

\* a handler receives the result of its promise: the deletion is scheduled,
\* then the stale flag is read
ResultDelivered ==
    \E i \in DOMAIN pitHandlers :
       /\ pitHandlers[i].stage = "waiting"
       /\ pitFetches[pitHandlers[i].fetch].settled
       /\ deleteTimers' = Append(deleteTimers, pitHandlers[i].driver)
       /\ pitHandlers' = IF pitHandlers[i].stale THEN RemoveAt(pitHandlers, i)
                         ELSE [pitHandlers EXCEPT ![i].stage = "animating"]
       /\ UNCHANGED <<pitDriver, pitMounted, fetchCache, pitFetches, phase, pitData, loadRuns,
                      notPit>>

\* the handler resumes after an await and reads the stale flag: after the
\* minimum animation time it sets pitData, 850 ms later it sets the phase
\* "leaving", 900 ms later "done"
HandlerResumed ==
    \E i \in DOMAIN pitHandlers :
       LET h == pitHandlers[i]
       IN /\ h.stage # "waiting"
          /\ IF h.stale
             THEN /\ pitHandlers' = RemoveAt(pitHandlers, i)
                  /\ UNCHANGED <<phase, pitData>>
             ELSE \/ /\ h.stage = "animating"
                     /\ pitData' = Some(h.fetch)
                     /\ pitHandlers' = [pitHandlers EXCEPT ![i].stage = "counting"]
                     /\ UNCHANGED phase
                  \/ /\ h.stage = "counting"
                     /\ phase' = "leaving"
                     /\ pitHandlers' = [pitHandlers EXCEPT ![i].stage = "leaving"]
                     /\ UNCHANGED pitData
                  \/ /\ h.stage = "leaving"
                     /\ phase' = "done"
                     /\ pitHandlers' = RemoveAt(pitHandlers, i)
                     /\ UNCHANGED pitData
          /\ UNCHANGED <<pitDriver, pitMounted, fetchCache, pitFetches, deleteTimers, loadRuns,
                         notPit>>

\* the oldest 2 s timer fires: `_fetchCache.delete(driver)`
DeleteTimerFired ==
    /\ Len(deleteTimers) > 0
    /\ fetchCache' = CacheDelete(fetchCache, Head(deleteTimers))
    /\ deleteTimers' = Tail(deleteTimers)
    /\ UNCHANGED <<pitDriver, pitMounted, pitFetches, pitHandlers, phase, pitData, loadRuns,
                   notPit>>

PitNext ==
    \/ PitMount
    \/ PitUnmount
    \/ \E d \in DriverIds : PitDriverChanged(d)
    \/ PitFetchSettled
    \/ ResultDelivered
    \/ HandlerResumed
    \/ DeleteTimerFired

(***************************************************************************)
(* The current-lap loop and its copies: fetchPitData (lib/openf1), the     *)
(* home poll, useCurrentLap of the venue dashboard and toLap.              *)
(***************************************************************************)
MaxLapRecords == 3      \* records in the lap feed
MaxCutoff == 3          \* latest cutoff instant

LapNumbers == {3, 4, 5}

\* `getStartLap(fallback)`: the parsed override if there is one
GetStartLap(fallback, env) == IF env = Null THEN fallback ELSE Get(env)

\* mutant of Started: a lap that starts at the cutoff has not started
StartedBefore(dateStart, t) == dateStart < t

\* `new Date(l.date_start).getTime() <= t`
Started(dateStart, t) == dateStart <= t

RECURSIVE PitLapFrom(_, _, _, _)
\* fetchPitData: the loop from record i on, `currentLap` so far
PitLapFrom(laps, simMs, i, currentLap) ==
    IF i > Len(laps) THEN currentLap
    ELSE IF Started(laps[i].date_start, simMs)
         THEN PitLapFrom(laps, simMs, i + 1, laps[i].lap_number)
         ELSE currentLap

\* fetchPitData: `let currentLap = getStartLap(1)` and the loop
PitCurrentLap(laps, simMs, env) == PitLapFrom(laps, simMs, 1, GetStartLap(1, env))

RECURSIVE HomeLapFrom(_, _, _, _)
\* the home poll: the loop over lapArr from record i on
HomeLapFrom(lapArr, t, i, currentLap) ==
    IF i > Len(lapArr) THEN currentLap
    ELSE IF Started(lapArr[i].date_start, t)
         THEN HomeLapFrom(lapArr, t, i + 1, lapArr[i].lap_number)
         ELSE currentLap

\* the home poll: `let currentLap = getStartLap(30)` and the loop
HomeCurrentLap(lapArr, t, env) == HomeLapFrom(lapArr, t, 1, GetStartLap(30, env))

RECURSIVE VenueLapFrom(_, _, _, _)
\* useCurrentLap: the loop from record i on
VenueLapFrom(laps, t, i, lap) ==
    IF i > Len(laps) THEN lap
    ELSE IF Started(laps[i].date_start, t)
         THEN VenueLapFrom(laps, t, i + 1, laps[i].lap_number)
         ELSE lap

\* useCurrentLap: `let lap = getStartLap(30)` and the loop
UseCurrentLap(laps, t, env) == VenueLapFrom(laps, t, 1, GetStartLap(30, env))

\* the lap feeds: at most MaxLapRecords records, ascending by date_start
\* (equal instants allowed), with any lap numbers
SortedLapFeeds ==
    {q \in SeqsUpTo([lap_number : LapNumbers, date_start : 0..(MaxCutoff - 1)], MaxLapRecords) :
        \A i \in 1..(Len(q) - 1) : q[i].date_start <= q[i + 1].date_start}

LapInit ==
    /\ lapFeed \in SortedLapFeeds
    /\ cutoff \in 0..MaxCutoff
    /\ startLapEnv \in {Null, Some(7)}
    /\ derived = Null

\* the lap feed before it is used
LapIdle == lapFeed = << >> /\ cutoff = 0 /\ startLapEnv = Null /\ derived = Null

\* every copy of the loop runs on the feed
DeriveCurrentLap ==
    /\ derived = Null
    /\ derived' = Some([pit |-> PitCurrentLap(lapFeed, cutoff, startLapEnv),
                        home |-> HomeCurrentLap(lapFeed, cutoff, startLapEnv),
                        venue |-> UseCurrentLap(lapFeed, cutoff, startLapEnv),
                        toLap |-> ToLapFrom(lapFeed, cutoff, 1, GetStartLap(30, startLapEnv))])
    /\ UNCHANGED <<lapFeed, cutoff, startLapEnv, notLap>>

LapNext == DeriveCurrentLap

(***************************************************************************)
(* Stints: the classification of TyrePredictor and the compound and tyre   *)
(* age of fetchPitData.                                                    *)
(***************************************************************************)
MaxStints == 3          \* stints in the table
MaxStintLap == 3        \* latest lap a stint starts on; the current lap goes one further

Compounds == {"SOFT", "HARD"}

StintRecords ==
    [lap_start : 1..MaxStintLap, tyre_age_at_start : {0, 3}, compound : Compounds]

\* the stint tables: ascending by lap_start
StintTables ==
    {q \in SeqsUpTo(StintRecords, MaxStints) :
        \A i \in 1..(Len(q) - 1) : q[i].lap_start <= q[i + 1].lap_start}

\* `liveData.stints.filter((s) => s.lap_start <= currentLap)`
StartedStints(stints, currentLap) == SelectSeq(stints, LAMBDA s : s.lap_start <= currentLap)

\* mutant of IsActive: the first started stint is the current one
IsFirstStint(i, length) == i = 1

\* `i === startedStints.length - 1`, with indices from 1
IsActive(i, length) == i = length

\* classifiedStints: status and tyreAge (none for a completed stint)
ClassifiedStints(stints, currentLap) ==
    LET startedStints == StartedStints(stints, currentLap)
    IN [i \in DOMAIN startedStints |->
          LET s == startedStints[i]
              isActive == IsActive(i, Len(startedStints))
          IN [lap_start |-> s.lap_start, tyre_age_at_start |-> s.tyre_age_at_start,
              compound |-> s.compound,
              status |-> IF isActive THEN "active" ELSE "completed",
              tyreAge |-> IF isActive
                          THEN Some(currentLap - s.lap_start + s.tyre_age_at_start)
                          ELSE Null]]

\* the answer of the stints endpoint to `lap_start<=currentLap`
StintsUpTo(table, currentLap) == SelectSeq(table, LAMBDA s : s.lap_start <= currentLap)

\* Math.max
Max(a, b) == IF a > b THEN a ELSE b

\* fetchPitData: latestStint, compound, stintStartLap and tyreAge
PitTyre(stints, currentLap) ==
    LET latestStint == IF Len(stints) > 0 THEN Some(Last(stints)) ELSE Null
        stintStartLap == IF latestStint # Null THEN Get(latestStint).lap_start ELSE 0
    IN [compound |-> IF latestStint # Null THEN Get(latestStint).compound ELSE "UNKNOWN",
        tyreAge |-> IF stintStartLap > 0 THEN Max(0, currentLap - stintStartLap) ELSE 0]

TyreInit ==
    /\ stintTable \in StintTables
    /\ tyreLap \in 1..(MaxStintLap + 1)
    /\ stintView = Null

\* the stint table before it is used
TyreIdle == stintTable = << >> /\ tyreLap = 1 /\ stintView = Null

\* the home tyre panel renders and fetchPitData runs on the table
DeriveStints ==
    /\ stintView = Null
    /\ stintView' = Some([classified |-> ClassifiedStints(stintTable, tyreLap),
                          pit |-> PitTyre(StintsUpTo(stintTable, tyreLap), tyreLap)])
    /\ UNCHANGED <<stintTable, tyreLap, notTyre>>

TyreNext == DeriveStints

(***************************************************************************)
(* The circuit layout: fetchCircuitLayout of the client and the GET        *)
(* handler of the circuit route.  A request is "sent" until the route      *)
(* handles it, "upstream" while the route awaits the upstream fetch, then  *)
(* "ok" or "failed".                                                       *)
(***************************************************************************)
MaxCircuitCalls == 4    \* fetchCircuitLayout calls in one behaviour

\* the browser pages that run the client code, each with its own module state
Pages == {1, 2}

CircuitInit ==
    /\ circuitLayoutCache = [c \in Pages |-> Null]
    /\ circuitRequests = << >>
    /\ routeCached = FALSE
    /\ upstreamRequests = 0
    /\ circuitCalls = 0

\* fetchCircuitLayout() on page c: a component mounts and asks for the layout
FetchCircuitLayout(c) ==
    /\ circuitCalls < MaxCircuitCalls
    /\ circuitCalls' = circuitCalls + 1
    /\ IF circuitLayoutCache[c] = Null
       THEN /\ circuitRequests' = Append(circuitRequests, [page |-> c, state |-> "sent"])
            /\ circuitLayoutCache' =
                  [circuitLayoutCache EXCEPT ![c] = Some(Len(circuitRequests) + 1)]
       ELSE UNCHANGED <<circuitRequests, circuitLayoutCache>>
    /\ UNCHANGED <<routeCached, upstreamRequests, notCircuit>>

\* GET of the route: answers from `cached` or starts the upstream fetch
RouteGet ==
    \E p \in DOMAIN circuitRequests :
       /\ circuitRequests[p].state = "sent"
       /\ IF routeCached
          THEN /\ circuitRequests' = [circuitRequests EXCEPT ![p].state = "ok"]
               /\ UNCHANGED upstreamRequests
          ELSE /\ circuitRequests' = [circuitRequests EXCEPT ![p].state = "upstream"]
               /\ upstreamRequests' = upstreamRequests + 1
       /\ UNCHANGED <<circuitLayoutCache, routeCached, circuitCalls, notCircuit>>

\* the upstream fetch of a GET succeeds: `cached = await res.json()`, the
\* page's promise resolves with the layout
UpstreamOk ==
    \E p \in DOMAIN circuitRequests :
       /\ circuitRequests[p].state = "upstream"
       /\ routeCached' = TRUE
       /\ circuitRequests' = [circuitRequests EXCEPT ![p].state = "ok"]
       /\ UNCHANGED <<circuitLayoutCache, upstreamRequests, circuitCalls, notCircuit>>

\* the upstream fetch fails or the request does not reach the route: the
\* page's .catch sets `_circuitLayoutCache = null` and resolves with null
CircuitFailed ==
    \E p \in DOMAIN circuitRequests :
       /\ circuitRequests[p].state \in {"sent", "upstream"}
       /\ circuitRequests' = [circuitRequests EXCEPT ![p].state = "failed"]
       /\ circuitLayoutCache' = [circuitLayoutCache EXCEPT ![circuitRequests[p].page] = Null]
       /\ UNCHANGED <<routeCached, upstreamRequests, circuitCalls, notCircuit>>

CircuitNext ==
    \/ \E c \in Pages : FetchCircuitLayout(c)
    \/ RouteGet
    \/ UpstreamOk
    \/ CircuitFailed

(***************************************************************************)
(* fetchPitData (lib/openf1): six feeds fetched one after the other, each  *)
(* through f1(), which turns a failed request into an empty array.         *)
(***************************************************************************)
Feeds == {"laps", "stints", "pit", "position", "intervals", "weather"}

\* the upstream records of the session: a lap starts at each instant 0, 1, 2,
\* one pit stop on lap 2, one position, one interval and one weather record
UpstreamLaps == [n \in 1..3 |-> [lap_number |-> n, date_start |-> n - 1]]

UpstreamPits == << [lap_number |-> 2, pit_duration |-> 23] >>

UpstreamPositions == << [position |-> 12] >>

UpstreamIntervals == << [gap_to_leader |-> 5300] >>

UpstreamWeather == << [air_temperature |-> 30, rainfall |-> 0] >>

\* f1(path): the records of the endpoint, `[]` when the request fails
F1(feed, records, failed) == IF feed \in failed THEN << >> ELSE records

\* the answer of the pit endpoint to `lap_number<=currentLap`
PitsUpTo(pits, currentLap) == SelectSeq(pits, LAMBDA p : p.lap_number <= currentLap)

\* fetchPitData(driverNumber) at instant t with the given stint table, when
\* the requests of the feeds in `failed` fail
FetchPitData(table, t, failed) ==
    LET laps == F1("laps", UpstreamLaps, failed)
        currentLap == PitCurrentLap(laps, t, Null)
        stints == F1("stints", StintsUpTo(table, currentLap), failed)
        pits == F1("pit", PitsUpTo(UpstreamPits, currentLap), failed)
        positions == F1("position", UpstreamPositions, failed)
        intervals == F1("intervals", UpstreamIntervals, failed)
        weather == F1("weather", UpstreamWeather, failed)
        tyre == PitTyre(stints, currentLap)
    IN [lastPitLap |-> IF Len(pits) > 0 THEN Some(Last(pits).lap_number) ELSE Null,
        pitDuration |-> IF Len(pits) > 0 THEN Some(Last(pits).pit_duration) ELSE Null,
        compound |-> tyre.compound,
        tyreAge |-> tyre.tyreAge,
        position |-> IF Len(positions) > 0 THEN Some(Last(positions).position) ELSE Null,
        gapToLeader |-> IF Len(intervals) > 0 THEN Some(Last(intervals).gap_to_leader)
                        ELSE Null,
        weather |-> IF Len(weather) > 0
                    THEN [airTemp |-> Some(Last(weather).air_temperature),
                          rainfall |-> IF Last(weather).rainfall > 0 THEN "Rain" ELSE "Dry"]
                    ELSE [airTemp |-> Null, rainfall |-> "Dry"]]

PitDataInit ==
    /\ feedStints \in StintTables
    /\ simInstant \in 0..2
    /\ failedFeeds \in {{}} \cup {{f} : f \in Feeds}
    /\ pitResult = Null

\* before any call
PitDataIdle == feedStints = << >> /\ simInstant = 0 /\ failedFeeds = {} /\ pitResult = Null

\* the call resolves
PitDataResolved ==
    /\ pitResult = Null
    /\ pitResult' = Some(FetchPitData(feedStints, simInstant, failedFeeds))
    /\ UNCHANGED <<feedStints, simInstant, failedFeeds, notPitData>>

PitDataNext == PitDataResolved

(***************************************************************************)
(* lib/simulation.ts : now(), the rolling simulated clock.  Instants are   *)
(* integral milliseconds, as Date.now() and Date.prototype.getTime() give  *)
(* them.                                                                   *)
(***************************************************************************)
MaxRealClock == 6       \* Date.now() stops advancing here
MaxNowCalls == 3        \* now() calls in one behaviour

\* mutant of Elapsed: the real time at module load is not subtracted
ElapsedSinceEpoch(t, origin) == t

\* `Date.now() - _realOrigin`
Elapsed(t, origin) == t - origin

\* now(): the instant of the Date returned
Now(sim, origin, t) == IF sim = Null THEN t ELSE Get(sim) + Elapsed(t, origin)

\* the module is loaded: NEXT_PUBLIC_SIM_TIME is unset or a timestamp before
\* or after the real time, `_realOrigin = Date.now()`
ClockInit ==
    /\ simOrigin \in {Null, Some(2), Some(100)}
    /\ dateNow \in {0, 5}
    /\ realOrigin = dateNow
    /\ nowCalls = << >>

\* the clock before it is read
ClockIdle == simOrigin = Null /\ dateNow = 0 /\ realOrigin = 0 /\ nowCalls = << >>

\* real time passes
RealTimePasses(d) ==
    /\ dateNow + d <= MaxRealClock
    /\ dateNow' = dateNow + d
    /\ UNCHANGED <<simOrigin, realOrigin, nowCalls, notClock>>

\* the system clock is set back
RealClockSetBack ==
    /\ dateNow > 0
    /\ dateNow' = dateNow - 1
    /\ UNCHANGED <<simOrigin, realOrigin, nowCalls, notClock>>

\* one call of now()
CallNow ==
    /\ Len(nowCalls) < MaxNowCalls
    /\ nowCalls' = Append(nowCalls, [real |-> dateNow,
                                     value |-> Now(simOrigin, realOrigin, dateNow)])
    /\ UNCHANGED <<simOrigin, realOrigin, dateNow, notClock>>

ClockNext ==
    \/ \E d \in {1, 2} : RealTimePasses(d)
    \/ RealClockSetBack
    \/ CallNow

(***************************************************************************)
(* HomeDashboard: the tab-aware live poll with its debounce, the driver    *)
(* change and the tension analysis of TensionTracker.  The document is     *)
(* visible throughout; liveData.position, carData and location are left    *)
(* out.  The requests of a poll are taken by their outcome: each one       *)
(* resolves with the records upstream had at the rounded poll instant, or  *)
(* fails and becomes `[]`.                                                 *)
(***************************************************************************)
MaxHomeClock == 10200   \* Date.now() stops advancing here
MaxHomePolls == 4       \* polls that pass the debounce in one behaviour
MaxAiRequests == 2      \* tension-analysis requests in one behaviour

DebounceMs == 200       \* `sinceLast < 200`
RoundMs == 5000         \* `Math.floor(simTime.getTime() / 5_000) * 5_000`
MaxBullets == 50        \* slice(0, 50)

FirstLap == 31          \* the lap that starts at instant 0

\* upstream, a lap starts every 5 s, lap 31 at instant 0: the answer of the
\* laps endpoint to `date_start<=t`
LapsOf(driverNum, t) ==
    [n \in 1..(t \div 5000 + FirstLap) |->
        [lap_number |-> n, date_start |-> (n - FirstLap) * 5000]]

\* upstream, an interval sample every 2.5 s, the gap of car 23 going 1.50,
\* 3.54, 1.50, ... and that of car 55 going 1.40, 3.64, 1.40, ...: the answer of
\* the intervals endpoint to `date<=t`
IntervalsOf(driverNum, t) ==
    [k \in 1..(t \div 2500) |->
        [interval |-> Some(IF driverNum = "23"
                           THEN (IF k % 2 = 1 THEN 150 ELSE 354)
                           ELSE (IF k % 2 = 1 THEN 140 ELSE 364)),
         date |-> 2500 * k]]

\* upstream, the stint table at instant t: a second stint from lap 33 on,
\* with no tyre age reported
StintsOf(driverNum, t) ==
    IF t < 10000
    THEN << [lap_start |-> 1, compound |-> Some("SOFT"), tyre_age_at_start |-> Some(0)] >>
    ELSE << [lap_start |-> 1, compound |-> Some("SOFT"), tyre_age_at_start |-> Some(0)],
            [lap_start |-> 33, compound |-> Some("hard"), tyre_age_at_start |-> Null] >>

\* String.prototype.toUpperCase on a compound name
ToUpperCase(c) == IF c = "hard" THEN "HARD" ELSE IF c = "soft" THEN "SOFT" ELSE c

\* the `stints.map(...)` of setLiveData
MapStints(stints) ==
    [i \in DOMAIN stints |->
        [lap_start |-> stints[i].lap_start,
         compound |-> ToUpperCase(IF stints[i].compound = Null THEN "UNKNOWN"
                                  ELSE Get(stints[i].compound)),
         tyre_age_at_start |-> IF stints[i].tyre_age_at_start = Null THEN 0
                               ELSE Get(stints[i].tyre_age_at_start)]]

\* `_lastLiveDataFetchTime > 0 && sinceLast < 200`
Debounced(last, t) == last > 0 /\ t - last < DebounceMs

\* `activeTab === "telemetry" ? 5_000 : 60_000`
PollInterval(tab) == IF tab = "telemetry" THEN 5000 ELSE 60000

\* the cleanup of the live poll effect: `stale = true` in its closure
PollCleanup(polls) == [i \in DOMAIN polls |-> [polls[i] EXCEPT !.stale = TRUE]]

\* poll() up to its await, called at Date.now() = t in a closure for driverNum
\* and tab: the polls awaiting, _lastLiveDataFetchTime and the number of
\* polls issued afterwards
PollStart(polls, last, issued, t, driverNum, tab) ==
    IF Debounced(last, t)
    THEN [polls |-> polls, last |-> last, issued |-> issued]
    ELSE [polls |-> Append(polls, [driverNum |-> driverNum, tab |-> tab,
                                   simTime |-> Now(simOrigin, realOrigin, t),
                                   cycle |-> issued + 1, stale |-> FALSE]),
          last |-> t,
          issued |-> issued + 1]

\* case "FETCH_START"
FetchStart(state) == [state EXCEPT !.loading = TRUE, !.error = Null]

\* case "AI_SUCCESS"
AiSuccess(state, bullets) ==
    LET existingBullets == {Normalized(state.bullets[i].text) : i \in DOMAIN state.bullets}
        newBullets == SelectSeq(bullets, LAMBDA b : Normalized(b.text) \notin existingBullets)
    IN [state EXCEPT !.loading = FALSE, !.error = Null,
                     !.bullets = SliceFirst(newBullets \o state.bullets, MaxBullets)]

\* case "FETCH_ERROR"
FetchError(state, error) == [state EXCEPT !.loading = FALSE, !.error = Some(error)]

\* case "RESET"
Reset(state) == TensionInit

\* the dashboard is mounted at Date.now() = 5000: the poll effect has issued
\* the first poll, the reset effect has then cleared _lastLiveDataFetchTime
HomeInit ==
    /\ homeDriver = "albon"
    /\ homeNow = 5000
    /\ lastLiveDataFetchTime = 0
    /\ timerDue = 5000 + PollInterval("telemetry")
    /\ homePolls = << [driverNum |-> "23", tab |-> "telemetry", simTime |-> 5000,
                       cycle |-> 1, stale |-> FALSE] >>
    /\ issuedHomePolls = 1
    /\ liveCurrentLap = GetStartLap(30, Null)
    /\ liveStints = << >>
    /\ shownFrom = [lap |-> Null, stints |-> Null]
    /\ aiRequests = << >>
    /\ aiIssued = 0
    /\ issuedAtReset = 0

\* a moment passes
HomeWaitShort ==
    /\ homeNow % RoundMs < DebounceMs
    /\ homeNow' = homeNow + 100
    /\ UNCHANGED <<homeDriver, lastLiveDataFetchTime, timerDue, homePolls, issuedHomePolls,
                   liveCurrentLap, liveStints, shownFrom, aiRequests, aiIssued,
                   issuedAtReset, tensionVars, homeRest>>

\* the next poll instant comes
HomeWaitLong ==
    /\ (homeNow \div RoundMs + 1) * RoundMs <= MaxHomeClock
    /\ homeNow' = (homeNow \div RoundMs + 1) * RoundMs
    /\ UNCHANGED <<homeDriver, lastLiveDataFetchTime, timerDue, homePolls, issuedHomePolls,
                   liveCurrentLap, liveStints, shownFrom, aiRequests, aiIssued,
                   issuedAtReset, tensionVars, homeRest>>

\* `setActiveTab(tab.id)`: the poll effect is cleaned up and run again
HomeSetActiveTab(tab) ==
    /\ tab # activeTab
    /\ issuedHomePolls < MaxHomePolls
    /\ activeTab' = tab
    /\ LET started == PollStart(PollCleanup(homePolls), lastLiveDataFetchTime,
                                issuedHomePolls, homeNow, DriverNumOf(homeDriver), tab)
       IN /\ homePolls' = started.polls
          /\ lastLiveDataFetchTime' = started.last
          /\ issuedHomePolls' = started.issued
    /\ timerDue' = homeNow + PollInterval(tab)
    /\ UNCHANGED <<homeDriver, homeNow, liveCurrentLap, liveStints, shownFrom, aiRequests,
                   aiIssued, issuedAtReset, liveIntervals, liveLaps, tension, homeRest>>

\* `setInterval(poll, pollInterval)` fires in the live closure
HomeTimerPoll ==
    /\ homeNow >= timerDue
    /\ issuedHomePolls < MaxHomePolls
    /\ LET started == PollStart(homePolls, lastLiveDataFetchTime, issuedHomePolls, homeNow,
                                DriverNumOf(homeDriver), activeTab)
       IN /\ homePolls' = started.polls
          /\ lastLiveDataFetchTime' = started.last
          /\ issuedHomePolls' = started.issued
    /\ timerDue' = timerDue + PollInterval(activeTab)
    /\ UNCHANGED <<homeDriver, homeNow, liveCurrentLap, liveStints, shownFrom, aiRequests,
                   aiIssued, issuedAtReset, tensionVars, homeRest>>

\* `setDriver(d)` of the driver selector.  The effects of the children run
\* first: TensionTracker dispatches RESET, and its interval effect (driverNum
\* changed) runs on the liveData still on display; then the poll effect of
\* the dashboard is cleaned up and run again, and its reset effect sets
\* liveData to the defaults and clears _lastLiveDataFetchTime
HomeDriverChanged(d) ==
    /\ d # homeDriver
    /\ issuedHomePolls < MaxHomePolls
    /\ homeDriver' = d
    /\ tension' = IntervalEffect(Reset(tension), liveIntervals, liveLaps, DriverNumOf(d))
    /\ issuedAtReset' = aiIssued
    /\ LET started == PollStart(PollCleanup(homePolls), lastLiveDataFetchTime,
                                issuedHomePolls, homeNow, DriverNumOf(d), activeTab)
       IN /\ homePolls' = started.polls
          /\ issuedHomePolls' = started.issued
    /\ timerDue' = homeNow + PollInterval(activeTab)
    /\ lastLiveDataFetchTime' = 0
    /\ liveLaps' = << >>
    /\ liveIntervals' = << >>
    /\ liveStints' = << >>
    /\ liveCurrentLap' = GetStartLap(30, Null)
    /\ shownFrom' = [lap |-> Null, stints |-> Null]
    /\ UNCHANGED <<homeNow, activeTab, aiRequests, aiIssued, homeRest>>

\* the requests of poll i have settled: the rest of poll() and the interval
\* effect of TensionTracker on the committed liveData
HomePollSettled(i, lapsOk, intervalsOk, stintsOk) ==
    LET poll == homePolls[i]
        rounded == (poll.simTime \div RoundMs) * RoundMs
        laps == IF lapsOk THEN LapsOf(poll.driverNum, rounded) ELSE << >>
        intervals == IF intervalsOk THEN IntervalsOf(poll.driverNum, rounded) ELSE << >>
        \* the stints request carries no instant: the table as it is by now
        stints == IF stintsOk THEN StintsOf(poll.driverNum, homeNow) ELSE << >>
    IN /\ homePolls' = RemoveAt(homePolls, i)
       /\ IF poll.stale
          THEN UNCHANGED <<liveLaps, liveCurrentLap, liveIntervals, liveStints, shownFrom,
                           tension>>
          ELSE /\ liveLaps' = laps
               /\ liveCurrentLap' = HomeCurrentLap(laps, poll.simTime, Null)
               /\ liveIntervals' = IF poll.tab = "tension" THEN intervals ELSE liveIntervals
               /\ liveStints' = IF poll.tab = "tyre" THEN MapStints(stints) ELSE liveStints
               /\ shownFrom' = [lap |-> Some(poll.cycle),
                                stints |-> IF poll.tab = "tyre" THEN Some(poll.cycle)
                                           ELSE shownFrom.stints]
               /\ tension' = IntervalEffect(tension, liveIntervals', liveLaps',
                                            DriverNumOf(homeDriver))
       /\ UNCHANGED <<homeDriver, homeNow, lastLiveDataFetchTime, timerDue, issuedHomePolls,
                      aiRequests, aiIssued, issuedAtReset, activeTab, homeRest>>

\* a poll awaiting its requests gets them
HomePollResolved ==
    \E i \in DOMAIN homePolls : \E lapsOk, intervalsOk, stintsOk \in BOOLEAN :
        HomePollSettled(i, lapsOk, intervalsOk, stintsOk)

\* the Analyze button of the tension tab: analyzeRef.current()
Analyze ==
    /\ activeTab = "tension"
    /\ aiIssued < MaxAiRequests
    /\ ~tension.loading
    /\ tension' = FetchStart(tension)
    /\ aiIssued' = aiIssued + 1
    /\ aiRequests' = Append(aiRequests, aiIssued + 1)
    /\ UNCHANGED <<homeDriver, homeNow, lastLiveDataFetchTime, timerDue, homePolls,
                   issuedHomePolls, liveCurrentLap, liveStints, shownFrom, issuedAtReset,
                   activeTab, liveIntervals, liveLaps, homeRest>>

\* the bullets made of the response to request r: one line of commentary
BulletsOf(r) == << [request |-> r, text |-> [line |-> r, upper |-> TRUE, padded |-> FALSE]] >>

\* the response to a request arrives with commentary: AI_SUCCESS
AiSucceeded ==
    \E i \in DOMAIN aiRequests :
        /\ aiRequests' = RemoveAt(aiRequests, i)
        /\ tension' = AiSuccess(tension, BulletsOf(aiRequests[i]))
        /\ UNCHANGED <<homeDriver, homeNow, lastLiveDataFetchTime, timerDue, homePolls,
                       issuedHomePolls, liveCurrentLap, liveStints, shownFrom, aiIssued,
                       issuedAtReset, activeTab, liveIntervals, liveLaps, homeRest>>

\* the response carries an error or no text, or the request fails: FETCH_ERROR
AiFailed ==
    \E i \in DOMAIN aiRequests :
        /\ aiRequests' = RemoveAt(aiRequests, i)
        /\ tension' = FetchError(tension, "Failed to reach tension analysis")
        /\ UNCHANGED <<homeDriver, homeNow, lastLiveDataFetchTime, timerDue, homePolls,
                       issuedHomePolls, liveCurrentLap, liveStints, shownFrom, aiIssued,
                       issuedAtReset, activeTab, liveIntervals, liveLaps, homeRest>>

HomeNext ==
    \/ HomeWaitShort
    \/ HomeWaitLong
    \/ \E tab \in Tabs : HomeSetActiveTab(tab)
    \/ HomeTimerPoll
    \/ \E d \in DriverIds : HomeDriverChanged(d)
    \/ HomePollResolved

\* the tension analysis across driver changes, started from the tension tab
AnalyzeNext ==
    \/ \E tab \in Tabs : HomeSetActiveTab(tab)
    \/ \E d \in DriverIds : HomeDriverChanged(d)
    \/ HomePollResolved
    \/ Analyze
    \/ AiSucceeded
    \/ AiFailed

(***************************************************************************)
(* Specifications                                                          *)
(***************************************************************************)
\* the detector's arguments before any call
DetectorIdle == window = << >> /\ windowLaps = << >> /\ returned = Null

Init ==
    /\ CacheInit /\ FeedInit /\ TensionTrackerInit /\ ReducerInit /\ DetectorIdle /\ BestInit
    /\ CornerInit /\ PitInit /\ LapIdle /\ TyreIdle /\ CircuitInit
    /\ PitDataIdle /\ ClockIdle /\ HomeInit

\* the state in which buildFromIntervals is about to be called on a window
InitDetector ==
    /\ CacheInit /\ FeedInit /\ TensionTrackerInit /\ ReducerInit /\ DetectorInit /\ BestInit
    /\ CornerInit /\ PitInit /\ LapIdle /\ TyreIdle /\ CircuitInit
    /\ PitDataIdle /\ ClockIdle /\ HomeInit

SpecDetector == InitDetector /\ [][DetectorNext]_vars

SpecBest == Init /\ [][BestNext]_vars

SpecReducer == Init /\ [][ReducerNext]_vars

SpecCache == Init /\ [][CacheNext]_vars

SpecTension == Init /\ [][TensionNext]_vars

SpecCorner == Init /\ [][CornerNext]_vars

SpecPit == Init /\ [][PitNext]_vars

SpecCircuit == Init /\ [][CircuitNext]_vars

SpecHome == Init /\ [][HomeNext]_vars

SpecAnalyze == Init /\ [][AnalyzeNext]_vars

\* the state in which the current lap is about to be derived from a feed
InitLap ==
    /\ CacheInit /\ FeedInit /\ TensionTrackerInit /\ ReducerInit /\ DetectorIdle /\ BestInit
    /\ CornerInit /\ PitInit /\ LapInit /\ TyreIdle /\ CircuitInit
    /\ PitDataIdle /\ ClockIdle /\ HomeInit

SpecLap == InitLap /\ [][LapNext]_vars

\* the state in which the stints are about to be derived from a table
InitTyre ==
    /\ CacheInit /\ FeedInit /\ TensionTrackerInit /\ ReducerInit /\ DetectorIdle /\ BestInit
    /\ CornerInit /\ PitInit /\ LapIdle /\ TyreInit /\ CircuitInit
    /\ PitDataIdle /\ ClockIdle /\ HomeInit

SpecTyre == InitTyre /\ [][TyreNext]_vars

\* the state in which fetchPitData is about to be called
InitPitData ==
    /\ CacheInit /\ FeedInit /\ TensionTrackerInit /\ ReducerInit /\ DetectorIdle /\ BestInit
    /\ CornerInit /\ PitInit /\ LapIdle /\ TyreIdle /\ CircuitInit
    /\ PitDataInit /\ ClockIdle /\ HomeInit

SpecPitData == InitPitData /\ [][PitDataNext]_vars

(***************************************************************************)
(* Properties of the request cache                                         *)
(***************************************************************************)
\* the step is a cachedFetch(url) call
IsCall(url) == Len(calls') = Len(calls) + 1 /\ calls'[Len(calls')].url = url

\* C1: a call for a key whose entry was stored less than 30 s ago returns the
\* stored promise and issues no network request; a call with no entry, or one
\* stored 30 s ago or more, issues one new request and replaces the entry.
C1_ReuseRule ==
    [][\A url \in Urls : IsCall(url) =>
          IF url \in DOMAIN urlCache /\ clock - urlCache[url].ts < 30000
          THEN /\ reqs' = reqs
               /\ urlCache' = urlCache
               /\ calls'[Len(calls')].promise = urlCache[url].promise
          ELSE /\ Len(reqs') = Len(reqs) + 1
               /\ reqs'[Len(reqs')].url = url
               /\ urlCache'[url] = [promise |-> Len(reqs'), ts |-> clock]
               /\ calls'[Len(calls')].promise = Len(reqs')]_vars

\* C1 witness: two calls with one key shared one request, and a call 30 s or
\* more after that request was stored issued a second one.
C1_Witness ==
    \E i, j, k \in DOMAIN calls :
        /\ i < j /\ j < k
        /\ calls[i].url = calls[j].url /\ calls[j].url = calls[k].url
        /\ calls[i].promise = calls[j].promise
        /\ calls[k].promise # calls[i].promise
        /\ reqs[calls[i].promise].state # "rejected"
        /\ reqs[calls[k].promise].ts - reqs[calls[i].promise].ts >= 30000

\* requests of a key that are in flight and were issued within the last 30 s
InFlightFresh(url) ==
    {p \in DOMAIN reqs : /\ reqs[p].url = url
                         /\ reqs[p].state = "pending"
                         /\ clock - reqs[p].ts < 30000}

\* C2: for any key, at most one request issued within the last 30 s is in
\* flight, and the callers holding such a request all hold the same promise.
C2_SingleFlight ==
    \A url \in Urls :
        /\ Cardinality(InFlightFresh(url)) <= 1
        /\ \A i, j \in DOMAIN calls :
               ( /\ calls[i].promise \in InFlightFresh(url)
                 /\ calls[j].promise \in InFlightFresh(url) )
                   => calls[i].promise = calls[j].promise

\* C3: a failed request leaves no entry for its key: no cache entry ever holds
\* a rejected promise, and no call ever returns a promise that has rejected.
C3_FailureEvicts ==
    /\ \A url \in DOMAIN urlCache : reqs[urlCache[url].promise].state # "rejected"
    /\ \A i \in DOMAIN calls : calls[i].state # "rejected"

\* C3 witness: the only earlier request of a key failed, and a call less than
\* 30 s after that request was issued got a new request.
C3_Witness ==
    \E p \in DOMAIN reqs : \E i \in DOMAIN calls :
        /\ reqs[p].state = "rejected"
        /\ calls[i].url = reqs[p].url
        /\ calls[i].promise > p
        /\ \A q \in 1..(calls[i].promise - 1) : reqs[q].url = reqs[p].url => q = p
        /\ reqs[calls[i].promise].ts - reqs[p].ts < 30000

(***************************************************************************)
(* Properties of the overtake detector and the overtake log                *)
(***************************************************************************)
\* C4: no two events of the overtake log have the same normalized description.
C4_NoDuplicateDescriptions ==
    \A i, j \in DOMAIN tension.overtakes :
        i # j => Normalized(tension.overtakes[i].description)
                    # Normalized(tension.overtakes[j].description)

\* the samples of the window that have an interval
WindowValid == ValidIntervals(window)

\* the events buildFromIntervals returned
Detected == IF returned = Null THEN << >> ELSE Get(returned).overtakes

\* number of returned events of a type for the sample with the given instant
DetectedCount(type, at) ==
    Cardinality({k \in DOMAIN Detected : Detected[k].type = type /\ Detected[k].id = at})

\* C6: for every consecutive pair (prev, curr) of non-null samples exactly one
\* ATTACKING event is emitted iff prev <= 1.5 and curr - prev > 2.0, exactly one
\* DEFENDING event iff prev > 2.0 and curr - prev < -2.0 and curr <= 1.5, never
\* both, none for the first sample, and no other event is emitted.
C6_DetectionRule ==
    returned # Null =>
      /\ \A i \in DOMAIN WindowValid :
            LET curr == Get(WindowValid[i].interval)
                prev == IF i > 1 THEN Get(WindowValid[i - 1].interval) ELSE curr
                att == DetectedCount("ATTACKING", WindowValid[i].date)
                def == DetectedCount("DEFENDING", WindowValid[i].date)
            IN /\ att = (IF i > 1 /\ prev <= 150 /\ curr - prev > 200 THEN 1 ELSE 0)
               /\ def = (IF i > 1 /\ prev > 200 /\ curr - prev < -200 /\ curr <= 150
                         THEN 1 ELSE 0)
               /\ att + def <= 1
      /\ \A k \in DOMAIN Detected :
            \E i \in DOMAIN WindowValid : Detected[k].id = WindowValid[i].date

\* C6 witness: a call returned an ATTACKING and a DEFENDING event for a window
\* of three samples, none of them null.
C6_Witness ==
    /\ returned # Null
    /\ Len(WindowValid) = 3
    /\ \E k \in DOMAIN Detected : Detected[k].type = "ATTACKING"
    /\ \E k \in DOMAIN Detected : Detected[k].type = "DEFENDING"

\* C7: the log holds one event per discontinuity: no two events were returned
\* from the same pair of samples (the same sample instant).
C7_OncePerDiscontinuity ==
    \A i, j \in DOMAIN tension.overtakes :
        i # j => tension.overtakes[i].id # tension.overtakes[j].id

\* C5: the log never holds more than 20 events and always holds the most
\* recently added ones: the last 20 of the events accepted as new.
C5_KeepsMostRecent ==
    /\ Len(tension.overtakes) <= 20
    /\ tension.overtakes = SliceLast(merged, 20)

(***************************************************************************)
(* Properties of the session-best tracker                                  *)
(***************************************************************************)
\* the lap entries of the latest resolved poll
PolledLaps == IF lapsResponse = Null THEN << >> ELSE Get(lapsResponse).laps

\* the (sector key, driver, value) tuples of the tracked drivers' valid values
\* in the latest resolved poll
TrackedValues ==
    UNION {{<<key, PolledLaps[i].driver_number, Get(PolledLaps[i][key])>> :
                key \in {k \in SectorKeys : PolledLaps[i][k] # Null}} :
            i \in {n \in DOMAIN PolledLaps :
                      /\ PolledLaps[n].driver_number \in {23, 55}
                      /\ ~PolledLaps[n].is_pit_out_lap}}

\* the minimum valid value of a key over all drivers in the latest resolved
\* poll and the minimum recorded before it
GlobalMin(key, recorded) ==
    LET values == {Get(PolledLaps[i][key]) :
                      i \in {n \in DOMAIN PolledLaps :
                                /\ ~PolledLaps[n].is_pit_out_lap
                                /\ PolledLaps[n][key] # Null
                                /\ Get(PolledLaps[n][key]) > 0}} \cup {recorded}
    IN CHOOSE v \in values : \A w \in values : v <= w

\* number of notifications fired so far for a tuple
Fired(count, t) == IF t \in DOMAIN count THEN count[t] ELSE 0

\* the step is the handler processing a resolved poll
IsHandled == pollPhase = "resolved" /\ pollPhase' = "handled"

\* C8: the handler fires no notification while it processes the first
\* successful poll (the tracker is not yet initialized).
C8_FirstPollSilent ==
    [][(IsHandled /\ ~initialized) => toastCount' = toastCount]_vars

\* C8 witness: the first poll has been processed, a tracked driver holds the
\* fastest time of a sector in it, and nothing was notified.
C8_Witness ==
    /\ pollPhase = "handled"
    /\ initialized
    /\ bestTimes = [key \in SectorKeys |-> GlobalMin(key, Infinity)]
    /\ \E t \in TrackedValues : t[3] = bestTimes[t[1]]
    /\ DOMAIN toastCount = {}

\* C9: at most one notification is ever fired per (sector key, driver, value),
\* and processing the same poll result once more fires none.
C9_NotifiedOnce ==
    /\ \A t \in DOMAIN toastCount : toastCount[t] <= 1
    /\ (pollPhase = "handled" /\ lapsResponse # Null /\ Get(lapsResponse).isArray)
          => Passes(PolledLaps, bestTimes, lastNotified, toastCount, initialized).acc.count
                = toastCount

\* C9 witness: a poll with two laps of a tracked driver that hold the same new
\* best value was processed, and that value was notified.
C9_Witness ==
    /\ pollPhase = "handled"
    /\ \E i, j \in DOMAIN PolledLaps : \E key \in SectorKeys :
          /\ i < j
          /\ PolledLaps[i].driver_number = PolledLaps[j].driver_number
          /\ ~PolledLaps[i].is_pit_out_lap /\ ~PolledLaps[j].is_pit_out_lap
          /\ PolledLaps[i][key] # Null
          /\ PolledLaps[i][key] = PolledLaps[j][key]
          /\ <<key, PolledLaps[i].driver_number, Get(PolledLaps[i][key])>>
                \in DOMAIN toastCount

\* C10: from the second processed poll on, the handler notifies (key, driver, v)
\* exactly when v is a valid value of a tracked driver, v <= the global minimum
\* just computed for the key, v < the minimum recorded by the previous poll (or
\* none was recorded), and the tuple was not notified before.
C10_NotifiesExactlyNewBests ==
    [][(IsHandled /\ initialized /\ Get(lapsResponse).isArray) =>
         \A t \in TrackedValues \cup DOMAIN toastCount' :
            (Fired(toastCount', t) > Fired(toastCount, t))
              <=> ( /\ t \in TrackedValues
                    /\ t[3] > 0
                    /\ t[3] <= GlobalMin(t[1], bestTimes[t[1]])
                    /\ (t[3] < bestTimes[t[1]] \/ bestTimes[t[1]] = Infinity)
                    /\ t \notin lastNotified )]_vars

\* C10 witness: after a poll processed by the initialized tracker, one tracked
\* driver was notified for the value that is the session best, and the other
\* tracked driver holds the same value without having been notified.
C10_Witness ==
    /\ pollPhase = "handled"
    /\ \E t, u \in TrackedValues :
          /\ t[1] = u[1] /\ t[3] = u[3] /\ t[2] # u[2]
          /\ t[3] = bestTimes[t[1]]
          /\ Fired(toastCount, t) = 1
          /\ Fired(toastCount, u) = 0

\* the latest poll resolved with an array and the handler has processed it
Processed == pollPhase = "handled" /\ lapsResponse # Null /\ Get(lapsResponse).isArray

\* C11: after every processed poll the stored best of each key is the minimum
\* valid duration over the non-pit-out laps of that poll alone (none recorded
\* when the poll has no valid duration for the key).
C11_BestOfCurrentPoll ==
    Processed => \A key \in SectorKeys : bestTimes[key] = GlobalMin(key, Infinity)

\* C12: no step raises the stored best of a key.
C12_BestNeverRegresses ==
    [][\A key \in SectorKeys : bestTimes'[key] <= bestTimes[key]]_vars

\* C12 witness: a poll whose fastest valid sector is slower than the stored
\* best was processed, and the stored best is still the earlier value.
C12_Witness ==
    /\ Processed
    /\ bestTimes["sector_1_duration"] = 30100
    /\ GlobalMin("sector_1_duration", Infinity) = 30200

(***************************************************************************)
(* Properties of the corner hysteresis                                     *)
(***************************************************************************)
\* the wrapped index distance of two corners among `total`
WrappedDiff(n, p, total) == Min(Abs(n - p), total - Abs(n - p))

\* C13: a smoothCorner call with a previous corner p and a nearest corner n
\* returns n and remembers n when the wrapped index distance of n and p is at
\* most 4 or the position lies within 100 units of corner n; otherwise it
\* returns p and the remembered corner stays p.
C13_Hysteresis ==
    \A k \in DOMAIN smoothCalls :
       LET call == smoothCalls[k]
           n == Get(call.nearest)
           p == Get(call.prev)
       IN (call.nearest # Null /\ call.prev # Null)
            => IF \/ WrappedDiff(n, p, NumCorners) <= 4
                  \/ SqDist(call.pos, CornerAt(n)) <= 10000
               THEN call.result = Some(n) /\ call.prevAfter = Some(n)
               ELSE call.result = Some(p) /\ call.prevAfter = Some(p)

\* C13 witness: with corner 1 remembered, corner 11 (10 corners away) was the
\* nearest at 101 units from the car, the call returned corner 1 and corner 1
\* is still remembered and on display.
C13_Witness ==
    /\ Len(smoothCalls) = 2
    /\ smoothCalls[1].prev = Some(1)
    /\ smoothCalls[1].nearest = Some(11)
    /\ smoothCalls[1].pos = [x |-> 1000, y |-> 199]
    /\ smoothCalls[1].result = Some(1)
    /\ activeCorner = Some(1)
    /\ prevCornerRef = Some(1)

\* the corners the location feed of a driver can be nearest to
CornersNear(driverNum) ==
    UNION {FindNearestCorner(pos, Layout.corners) : pos \in LocationsOf(driverNum)}

\* C14: a change of the tracked driver leaves no remembered corner and no
\* corner on display; a call that finds no remembered corner returns the
\* nearest corner; and the corner on display and the remembered corner are
\* always corners of the current driver's positions.
C14_ResetOnDriverChange ==
    /\ [][driver' # driver => prevCornerRef' = Null /\ activeCorner' = Null]_vars
    /\ [](\A k \in DOMAIN smoothCalls :
             smoothCalls[k].prev = Null => smoothCalls[k].result = smoothCalls[k].nearest)
    /\ [](activeCorner \subseteq CornersNear(DriverNumOf(driver)))
    /\ [](prevCornerRef \subseteq CornersNear(DriverNumOf(driver)))

\* C14 witness: after a change to the second driver, the first position of the
\* new driver has corner 16 nearest, 101 units away and 5 corners from every
\* corner of the first driver, and corner 16 is on display.
C14_Witness ==
    /\ driver = "sainz"
    /\ Len(smoothCalls) = 2
    /\ smoothCalls[1].prev = Null
    /\ smoothCalls[1].nearest = Some(16)
    /\ smoothCalls[1].pos = [x |-> 6000, y |-> 199]
    /\ activeCorner = Some(16)

(***************************************************************************)
(* Properties of the cooperative cancellation                              *)
(***************************************************************************)
\* the step delivers the result of a settled pit-data promise to a handler
\* whose effect was torn down before
StaleDelivery ==
    \E i \in DOMAIN pitHandlers :
       /\ pitHandlers[i].stale
       /\ pitHandlers[i].stage = "waiting"
       /\ pitFetches[pitHandlers[i].fetch].settled
       /\ pitHandlers' = RemoveAt(pitHandlers, i)

\* C15: a response that reaches a routine after its owning context was torn
\* down changes no state: for the pit-data load, neither the component state
\* nor the promise cache nor the pending timers change in that step.
C15_StaleChangesNothing ==
    [][StaleDelivery => UNCHANGED <<fetchCache, deleteTimers, phase, pitData>>]_vars

(***************************************************************************)
(* Properties of the current-lap derivation                                *)
(***************************************************************************)
\* the lap number of the last record that started at or before the cutoff,
\* the fallback if there is none
LastStarted(laps, t, fallback) ==
    LET started == {i \in DOMAIN laps : laps[i].date_start <= t}
    IN IF started = {} THEN fallback
       ELSE laps[CHOOSE i \in started : \A j \in started : j <= i].lap_number

\* C16: on a feed sorted by date_start every copy of the loop returns the lap
\* number of the last record with date_start <= cutoff (the last in input
\* order among equal instants), and its fallback when there is none; copies
\* with the same fallback return the same lap.
C16_CurrentLap ==
    derived # Null =>
       LET d == Get(derived)
       IN /\ d.pit = LastStarted(lapFeed, cutoff, GetStartLap(1, startLapEnv))
          /\ d.home = LastStarted(lapFeed, cutoff, GetStartLap(30, startLapEnv))
          /\ d.venue = LastStarted(lapFeed, cutoff, GetStartLap(30, startLapEnv))
          /\ d.toLap = LastStarted(lapFeed, cutoff, GetStartLap(30, startLapEnv))
          /\ d.home = d.venue /\ d.venue = d.toLap
          /\ startLapEnv # Null => d.pit = d.home

\* C16 witness: two records start at the cutoff instant and a third later; the
\* copies, given the same fallback, all derived the lap of the second record.
C16_Witness ==
    /\ derived # Null
    /\ startLapEnv # Null
    /\ Len(lapFeed) = 3
    /\ lapFeed[1].date_start = cutoff /\ lapFeed[2].date_start = cutoff
    /\ lapFeed[3].date_start > cutoff
    /\ lapFeed[1].lap_number # lapFeed[2].lap_number
    /\ Get(derived).pit = lapFeed[2].lap_number
    /\ Get(derived).toLap = lapFeed[2].lap_number

(***************************************************************************)
(* Properties of the stint derivation                                      *)
(***************************************************************************)
\* what was derived
View == Get(stintView)

\* the stints of the table that have started
StartedNow == StartedStints(stintTable, tyreLap)

\* C17: when a stint is active, the tyre age of the home tyre panel and the
\* tyre age of fetchPitData both equal
\* max(0, currentLap - lap_start + tyre_age_at_start), and neither is negative.
C17_TyreAge ==
    (stintView # Null /\ Len(StartedNow) > 0) =>
       LET active == Last(StartedNow)
           age == Max(0, tyreLap - active.lap_start + active.tyre_age_at_start)
       IN /\ Last(View.classified).tyreAge = Some(age)
          /\ View.pit.tyreAge = age
          /\ View.pit.tyreAge >= 0

\* C18: the stints shown are exactly the started ones; if there are any,
\* exactly one is active, it has the greatest lap_start, and the others are
\* completed; if there are none, no stint is active.
C18_StintClassification ==
    stintView # Null =>
       LET shown == View.classified
           active == {i \in DOMAIN shown : shown[i].status = "active"}
       IN /\ Len(shown) = Cardinality({i \in DOMAIN stintTable :
                                          stintTable[i].lap_start <= tyreLap})
          /\ \A i \in DOMAIN shown : shown[i].lap_start <= tyreLap
          /\ \A i \in DOMAIN shown : shown[i].status \in {"active", "completed"}
          /\ Cardinality(active) = IF Len(shown) > 0 THEN 1 ELSE 0
          /\ \A i \in active : \A j \in DOMAIN shown : shown[j].lap_start <= shown[i].lap_start

\* C18 witness: a table of three stints, the first two started on different
\* laps and the third still to come; two are shown, the second is active.
C18_Witness ==
    /\ stintView # Null
    /\ Len(stintTable) = 3
    /\ stintTable[1].lap_start < stintTable[2].lap_start
    /\ stintTable[2].lap_start <= tyreLap
    /\ stintTable[3].lap_start > tyreLap
    /\ Len(View.classified) = 2
    /\ View.classified[1].status = "completed"
    /\ View.classified[2].status = "active"

(***************************************************************************)
(* Properties of the circuit layout fetch                                  *)
(***************************************************************************)
\* C19: whatever the callers do, a page issues at most one circuit request
\* and the circuit route sends at most one request upstream.
C19_CircuitFetchedOnce ==
    /\ \A c \in Pages :
          Cardinality({p \in DOMAIN circuitRequests : circuitRequests[p].page = c}) <= 1
    /\ upstreamRequests <= 1

(***************************************************************************)
(* Properties of the partial feed success                                  *)
(***************************************************************************)
\* the fields of PitData that are read from a feed
FieldsOf(feed) ==
    IF feed = "stints" THEN {"compound", "tyreAge"}
    ELSE IF feed = "pit" THEN {"lastPitLap", "pitDuration"}
    ELSE IF feed = "position" THEN {"position"}
    ELSE IF feed = "intervals" THEN {"gapToLeader"}
    ELSE IF feed = "weather" THEN {"weather"}
    ELSE {}

\* C20: when the request of one feed fails, fetchPitData still resolves, and
\* every field read from another feed has the value it has when no request
\* fails.
C20_PartialFeedSuccess ==
    (pitResult # Null /\ failedFeeds # {}) =>
       \A feed \in Feeds \ failedFeeds : \A field \in FieldsOf(feed) :
          Get(pitResult)[field] = FetchPitData(feedStints, simInstant, {})[field]

\* the module state in which now() is about to be called
InitClock ==
    /\ CacheInit /\ FeedInit /\ TensionTrackerInit /\ ReducerInit /\ DetectorIdle /\ BestInit
    /\ CornerInit /\ PitInit /\ LapIdle /\ TyreIdle /\ CircuitInit
    /\ PitDataIdle /\ ClockInit /\ HomeInit

SpecClock == InitClock /\ [][ClockNext]_vars

(***************************************************************************)
(* Properties of the clock                                                 *)
(***************************************************************************)
\* C21: with a simulated origin every now() call returns origin + (real now -
\* real time at module load), so two calls differ by exactly the real time
\* between them, and a later call never returns an earlier instant unless the
\* real clock went back; without an origin now() returns the real clock.
C21_ClockDeterminism ==
    \A i, j \in DOMAIN nowCalls :
        /\ IF simOrigin = Null
           THEN nowCalls[i].value = nowCalls[i].real
           ELSE nowCalls[i].value = Get(simOrigin) + (nowCalls[i].real - realOrigin)
        /\ nowCalls[j].value - nowCalls[i].value = nowCalls[j].real - nowCalls[i].real
        /\ (i < j /\ nowCalls[i].real <= nowCalls[j].real)
              => nowCalls[i].value <= nowCalls[j].value

\* C21 witness: with an origin configured and the module loaded at a real time
\* other than 0, two calls 3 ms apart returned instants 3 ms apart.
C21_Witness ==
    /\ simOrigin # Null
    /\ realOrigin # 0
    /\ \E i, j \in DOMAIN nowCalls :
          /\ i < j
          /\ nowCalls[j].real - nowCalls[i].real = 3
          /\ nowCalls[j].value - nowCalls[i].value = 3
          /\ nowCalls[i].value # nowCalls[i].real

(***************************************************************************)
(* The gap history on its own: one poll of the tension tab applied to an   *)
(* interval feed longer than the window of 12 samples.                     *)
(***************************************************************************)
MaxFeed == 14           \* samples of the interval feed

\* a feed of n samples 0.95, 1.00, 1.05, ... (the first one negative if
\* `neg`), the sample at position k without an interval (k = 0: none)
FeedOf(n, k, neg) ==
    [i \in 1..n |->
        [interval |-> IF i = k THEN Null
                      ELSE IF i = 1 /\ neg THEN Some(-95)
                      ELSE Some(90 + 5 * i),
         date |-> i]]

GapFeeds == {FeedOf(n, k, neg) : n \in 0..MaxFeed, k \in 0..MaxFeed, neg \in BOOLEAN}

\* the tension tab is on display and no poll has resolved yet
GapInit ==
    /\ upIntervals \in GapFeeds
    /\ date = Len(upIntervals)
    /\ upLaps = << [lap_number |-> 1, date_start |-> 0] >>
    /\ activeTab = "tension"
    /\ liveIntervals = << >>
    /\ liveLaps = << >>
    /\ tension = TensionInit

GapNext == \E lapsOk, intervalsOk \in BOOLEAN : PollApplied(lapsOk, intervalsOk)

InitGap ==
    /\ CacheInit /\ GapInit /\ ReducerInit /\ DetectorIdle /\ BestInit
    /\ CornerInit /\ PitInit /\ LapIdle /\ TyreIdle /\ CircuitInit
    /\ PitDataIdle /\ ClockIdle /\ HomeInit

SpecGap == InitGap /\ [][GapNext]_vars

\* the samples of the feed on display that have an interval, last 12 of them
LastValid == SliceLast(ValidIntervals(liveIntervals), 12)

\* C22: after an INTERVALS_UPDATE the gap history has at most 12 snapshots,
\* one for each of the last 12 samples of the feed that have an interval, in
\* feed order, with gap = |interval|, closingRate = previous interval - current
\* interval (0 for the first) and drsActive iff gap <= 1.0.
C22_GapHistory ==
    Len(liveIntervals) > 0 =>
      /\ Len(tension.gapHistory) <= 12
      /\ Len(tension.gapHistory) = Len(LastValid)
      /\ \A i \in DOMAIN tension.gapHistory :
            LET snapshot == tension.gapHistory[i]
                curr == Get(LastValid[i].interval)
            IN /\ i \in DOMAIN LastValid
               /\ snapshot.gap = Abs(curr)
               /\ snapshot.closingRate =
                     (IF i = 1 THEN 0 ELSE Get(LastValid[i - 1].interval) - curr)
               /\ snapshot.drsActive = (Abs(curr) <= 100)

(***************************************************************************)
(* Properties of the request cache, continued                              *)
(***************************************************************************)
\* the step is the failure of request p
Fails(p) == reqs[p].state = "pending" /\ reqs'[p].state = "rejected"

\* C25: the failure of a request removes no cache entry but its own: an entry
\* that holds another (newer) request of the key stays as it is.
C25_EvictsOwnEntryOnly ==
    [][\A p \in DOMAIN reqs : Fails(p) =>
          \A url \in DOMAIN urlCache :
              urlCache[url].promise # p =>
                  url \in DOMAIN urlCache' /\ urlCache'[url] = urlCache[url]]_vars

(***************************************************************************)
(* Properties of the tension state, continued                              *)
(***************************************************************************)
\* C28: lastOvertake is null or an event of the overtake log.
C28_LastOvertakeInLog ==
    tension.lastOvertake = Null
       \/ \E i \in DOMAIN tension.overtakes : tension.overtakes[i] = Get(tension.lastOvertake)

(***************************************************************************)
(* Properties of the pit-data load, continued                              *)
(***************************************************************************)
\* the doFetch promises of a driver that have not settled
InFlightFor(d) == {p \in DOMAIN pitFetches : pitFetches[p].driver = d /\ ~pitFetches[p].settled}

\* C29: at most one doFetch request per driver is in flight; a run of the
\* load effect for a driver with a request in flight creates no request; and
\* no step removes the cache entry of a request that is still in flight.
C29_LoadCoalescing ==
    /\ [](\A d \in DriverIds : Cardinality(InFlightFor(d)) <= 1)
    /\ [][\A d \in DriverIds :
            /\ (loadRuns' = loadRuns + 1 /\ pitDriver' = d /\ InFlightFor(d) # {})
                  => pitFetches' = pitFetches
            /\ (d \in DOMAIN fetchCache /\ d \notin DOMAIN fetchCache')
                  => pitFetches[fetchCache[d]].settled]_vars

(***************************************************************************)
(* Properties of the home dashboard                                        *)
(***************************************************************************)
\* C23: what is shown together comes from one poll cycle: whenever the tyre
\* panel has stints, they were fetched by the cycle that set the current lap.
C23_OneCyclePerView ==
    Len(liveStints) > 0 => shownFrom.stints = shownFrom.lap

\* the step switches the tab or changes the driver
SwitchStep == activeTab' # activeTab \/ homeDriver' # homeDriver

\* C24: every tab switch and every driver change issues a poll for the new
\* tab and driver at once, whatever the time since the previous poll.
C24_SwitchAlwaysPolls ==
    [][SwitchStep =>
          \E i \in DOMAIN homePolls' :
              /\ homePolls'[i].cycle = issuedHomePolls + 1
              /\ homePolls'[i].tab = activeTab'
              /\ homePolls'[i].driverNum = DriverNumOf(homeDriver')
              /\ ~homePolls'[i].stale]_vars

\* the intervals upstream reports for a car
IntervalValuesOf(driverNum) ==
    {Get(IntervalsOf(driverNum, MaxHomeClock)[k].interval) :
        k \in DOMAIN IntervalsOf(driverNum, MaxHomeClock)}

\* C26: the gap history and the overtake log hold nothing computed from the
\* samples of another car than the tracked driver's: every gap is one of that
\* car's gaps and every event describes a jump between two of its intervals.
C26_NothingOfPreviousDriver ==
    LET values == IntervalValuesOf(DriverNumOf(homeDriver))
    IN /\ \A i \in DOMAIN tension.gapHistory :
             tension.gapHistory[i].gap \in {Abs(v) : v \in values}
       /\ \A i \in DOMAIN tension.overtakes :
             /\ tension.overtakes[i].description.prev \in {ToFixed1(v) : v \in values}
             /\ tension.overtakes[i].description.curr \in {ToFixed1(v) : v \in values}

\* C27: the bullets come from requests issued after the last RESET, and at
\* most one tension-analysis request is in flight.
C27_NoBulletsAcrossReset ==
    /\ \A i \in DOMAIN tension.bullets : tension.bullets[i].request > issuedAtReset
    /\ Len(aiRequests) <= 1

\* the step applies a poll after another applied poll of the same driver
NextAppliedPoll ==
    /\ homeDriver' = homeDriver
    /\ shownFrom.lap # Null
    /\ shownFrom'.lap # shownFrom.lap

\* C30: for one driver the current lap shown never decreases from one applied
\* poll to the next.
C30_LapNeverDecreases ==
    [][NextAppliedPoll => liveCurrentLap' >= liveCurrentLap]_vars

====
